---- MODULE Spec2Model ----
(***************************************************************************)
(* A model of the calculation forms of the API 653 report builder and of   *)
(* the server routes that store their custom fields.                       *)
(*                                                                         *)
(* Numbers.  A JavaScript number is modelled by an exact rational <<n, d>> *)
(* in lowest terms with d > 0; <<1, 0>> is Infinity, <<-1, 0>> -Infinity   *)
(* and <<0, 0>> NaN, which is what x / 0 yields in JavaScript.  The forms  *)
(* are computed over the rationals, which leaves out the rounding of IEEE  *)
(* doubles (an error of a few units in the 16th digit); calculateStatistics*)
(* is computed in binary64 itself, where that rounding shows in the output.*)
(*                                                                         *)
(* Strings.  The text of a form field is <<>> when the field is empty or   *)
(* undefined, the decimal numeral <<m, p>> (the integer m written with p   *)
(* decimals: <<485, 3>> is "0.485") or NaNText.                            *)
(***************************************************************************)
EXTENDS Integers, Sequences, FiniteSets, TLC

VARIABLES
    activeTab,    \* the report section whose form component is mounted
    edits,        \* number of inputs received so far (bounded by MaxEdits)
    reportData,   \* the report's base data once its query has resolved
    shellForm,    \* state of the shell calculations form
    roofForm,     \* state of the roof calculations form
    floorForm,    \* state of the floor MRT calculations form
    nozzleForm,   \* formData of the nozzle CML form
    settlement,   \* formData of the settlement survey form
    cmlRecords,   \* the CML records of the report
    calc,         \* the locals of the last run of a calculator of the mounted form
    toast,        \* the last toast shown
    reports,      \* the server's reports table, by report id
    exchange,     \* the last request the server received and its response
    saves         \* where each save handler in progress stands, by route

browserVars == <<activeTab, edits, reportData, shellForm, roofForm, floorForm,
                 nozzleForm, settlement, cmlRecords, calc, toast>>

serverVars == <<reports, exchange, saves>>

vars == <<activeTab, edits, reportData, shellForm, roofForm, floorForm,
          nozzleForm, settlement, cmlRecords, calc, toast, reports, exchange, saves>>

----------------------------------------------------------------------------
(* Bounds of the model *)

MaxEdits == 3

----------------------------------------------------------------------------
(* Exact arithmetic standing for JavaScript numbers *)

Abs(i) == IF i < 0 THEN 0 - i ELSE i

Sign(i) == IF i < 0 THEN 0 - 1 ELSE IF i > 0 THEN 1 ELSE 0

RECURSIVE GCD(_, _)
GCD(a, b) == IF b = 0 THEN a ELSE GCD(b, a % b)

RECURSIVE Pow10(_)
Pow10(p) == IF p = 0 THEN 1 ELSE 10 * Pow10(p - 1)

Norm(n, d) ==
    IF d = 0 THEN <<Sign(n), 0>>
    ELSE LET g == GCD(Abs(n), Abs(d))
         IN  <<Sign(d) * (n \div g), Abs(d) \div g>>

NaN == <<0, 0>>

Infinity == <<1, 0>>

Num(i) == <<i, 1>>

IsFinite(a) == a[2] # 0

IsNaN(a) == a = NaN

RNeg(a) == <<0 - a[1], a[2]>>

RAdd(a, b) ==
    IF IsFinite(a) /\ IsFinite(b)
    THEN LET g == GCD(a[2], b[2])
         IN  Norm(a[1] * (b[2] \div g) + b[1] * (a[2] \div g), (a[2] \div g) * b[2])
    ELSE IF IsNaN(a) \/ IsNaN(b) THEN NaN
    ELSE IF IsFinite(b) THEN a
    ELSE IF IsFinite(a) \/ a = b THEN b
    ELSE NaN

RSub(a, b) == RAdd(a, RNeg(b))

RMul(a, b) ==
    IF IsFinite(a) /\ IsFinite(b)
    THEN LET g1 == GCD(Abs(a[1]), b[2])
             g2 == GCD(Abs(b[1]), a[2])
         IN  <<(a[1] \div g1) * (b[1] \div g2), (a[2] \div g2) * (b[2] \div g1)>>
    ELSE <<Sign(a[1]) * Sign(b[1]), 0>>

RDiv(a, b) ==
    IF IsFinite(a) /\ IsFinite(b)
    THEN IF b[1] = 0 THEN <<Sign(a[1]), 0>>
         ELSE RMul(a, <<Sign(b[1]) * b[2], Abs(b[1])>>)
    ELSE IF IsFinite(b) /\ ~IsNaN(a) THEN <<a[1] * (IF b[1] < 0 THEN 0 - 1 ELSE 1), 0>>
    ELSE IF IsFinite(a) /\ ~IsNaN(b) THEN Num(0)
    ELSE NaN

\* a < b; false when either is NaN, as in JavaScript
RLt(a, b) ==
    /\ ~IsNaN(a) /\ ~IsNaN(b)
    /\ IF IsFinite(a) /\ IsFinite(b) THEN a[1] * b[2] < b[1] * a[2]
       ELSE IF IsFinite(a) THEN b[1] > 0
       ELSE IF IsFinite(b) THEN a[1] < 0
       ELSE a[1] < b[1]

RGt(a, b) == RLt(b, a)

RLe(a, b) == ~IsNaN(a) /\ ~IsNaN(b) /\ ~RLt(b, a)

RGe(a, b) == RLe(b, a)

\* Math.max and Math.min: NaN when an argument is NaN
MathMax(a, b) == IF IsNaN(a) \/ IsNaN(b) THEN NaN ELSE IF RLt(a, b) THEN b ELSE a

MathMin(a, b) == IF IsNaN(a) \/ IsNaN(b) THEN NaN ELSE IF RLt(b, a) THEN b ELSE a

\* <<q, r>> with n * 10^p = q * d + r and 0 <= r < d, by long division
RECURSIVE Shift10(_, _, _)
Shift10(n, d, p) ==
    IF p = 0 THEN <<n \div d, n % d>>
    ELSE LET s == Shift10(n, d, p - 1)
         IN  <<s[1] * 10 + (s[2] * 10) \div d, (s[2] * 10) % d>>

\* Math.round(a * 10^p): the nearest integer, a tie going up
RoundShift(a, p) ==
    IF IsFinite(a)
    THEN LET s == Shift10(a[1], a[2], p)
         IN  Num(s[1] + (IF 2 * s[2] >= a[2] THEN 1 ELSE 0))
    ELSE a

\* Math.round
MathRound(a) == RoundShift(a, 0)

\* Math.floor
MathFloor(a) == IF IsFinite(a) THEN Num(a[1] \div a[2]) ELSE a

\* Math.abs
MathAbs(a) == <<Abs(a[1]), a[2]>>

----------------------------------------------------------------------------
(* Strings of form fields *)

Empty == <<>>

NaNText == <<0, 0, 0>>

IsNumeral(t) == Len(t) = 2

\* the decimal numeral of m / 10^p
Txt(m, p) == <<m, p>>

\* parseFloat of a form text
parseFloat(t) == IF IsNumeral(t) THEN Norm(t[1], Pow10(t[2])) ELSE NaN

\* text || dflt : an empty or undefined text is falsy
OrElse(t, dflt) == IF t = Empty THEN dflt ELSE t

\* Number.prototype.toFixed(p): p decimals, a tie going away from zero
toFixed(a, p) ==
    IF ~IsFinite(a) THEN NaNText
    ELSE LET s == Shift10(Abs(a[1]), a[2], p)
             k == s[1] + (IF 2 * s[2] >= a[2] THEN 1 ELSE 0)
         IN  Txt(Sign(a[1]) * k, p)

\* Number.prototype.toString of a number that is an integer
toString(a) == IF IsFinite(a) /\ a[2] = 1 THEN Txt(a[1], 0) ELSE NaNText

----------------------------------------------------------------------------
(* IEEE 754 binary64, for the sums and the quotients whose rounding shows in
   what is printed.  A natural number is the sequence of its digits in base
   2^10, the lowest first and the highest not 0 (<<>> is 0).  A double is
   [sign, mant, exp] and stands for sign * mant * 2^exp, with a mant of 53
   bits unless it is 0; the values of the model stay far from the subnormal
   and the infinite ones. *)

RECURSIVE Pow2(_)
Pow2(k) == IF k = 0 THEN 1 ELSE 2 * Pow2(k - 1)

Base == Pow2(10)

\* the number of bits of an integer n >= 0
RECURSIVE IntBits(_)
IntBits(n) == IF n = 0 THEN 0 ELSE 1 + IntBits(n \div 2)

RECURSIVE NatOf(_)
NatOf(n) == IF n = 0 THEN <<>> ELSE <<n % Base>> \o NatOf(n \div Base)

RECURSIVE IntOf(_)
IntOf(a) == IF a = <<>> THEN 0 ELSE Head(a) + Base * IntOf(Tail(a))

\* a without its high zeros
RECURSIVE Strip(_)
Strip(a) ==
    IF a = <<>> THEN a
    ELSE IF a[Len(a)] = 0 THEN Strip(SubSeq(a, 1, Len(a) - 1)) ELSE a

Digit(a, i) == IF i >= 1 /\ i <= Len(a) THEN a[i] ELSE 0

BitLength(a) == IF a = <<>> THEN 0 ELSE 10 * (Len(a) - 1) + IntBits(a[Len(a)])

\* the digits from i on of a + b + carry
RECURSIVE AddFrom(_, _, _, _)
AddFrom(a, b, i, carry) ==
    IF i > Len(a) /\ i > Len(b) THEN (IF carry = 1 THEN <<1>> ELSE <<>>)
    ELSE <<(Digit(a, i) + Digit(b, i) + carry) % Base>>
         \o AddFrom(a, b, i + 1, (Digit(a, i) + Digit(b, i) + carry) \div Base)

NatAdd(a, b) == AddFrom(a, b, 1, 0)

\* the digits from i on of a - b - borrow, for a >= b
RECURSIVE SubFrom(_, _, _, _)
SubFrom(a, b, i, borrow) ==
    IF i > Len(a) THEN <<>>
    ELSE <<(Digit(a, i) - Digit(b, i) - borrow) % Base>>
         \o SubFrom(a, b, i + 1, IF Digit(a, i) - Digit(b, i) - borrow < 0 THEN 1 ELSE 0)

NatSub(a, b) == Strip(SubFrom(a, b, 1, 0))

NatLt(a, b) ==
    \/ Len(a) < Len(b)
    \/ /\ Len(a) = Len(b)
       /\ \E i \in 1..Len(a) :
              a[i] < b[i] /\ \A j \in (i + 1)..Len(a) : a[j] = b[j]

\* <<floor(a / n), a mod n>> by long division from the high digit: q and r are
\* the quotient and the remainder of the digits above i
RECURSIVE DivFrom(_, _, _, _, _)
DivFrom(a, n, i, q, r) ==
    IF i = 0 THEN <<q, r>>
    ELSE DivFrom(a, n, i - 1, <<(r * Base + a[i]) \div n>> \o q, (r * Base + a[i]) % n)

\* <<floor(a / n), a mod n>> for an integer n in 1..2^21 - 1
DivSmall(a, n) == LET p == DivFrom(a, n, Len(a), <<>>, 0) IN <<Strip(p[1]), p[2]>>

\* the digits from i on of a * m + carry
RECURSIVE MulFrom(_, _, _, _)
MulFrom(a, m, i, carry) ==
    IF i > Len(a) THEN NatOf(carry)
    ELSE <<(a[i] * m + carry) % Base>> \o MulFrom(a, m, i + 1, (a[i] * m + carry) \div Base)

\* a * m for an integer m in 1..2^21 - 1
MulSmall(a, m) == IF a = <<>> THEN a ELSE MulFrom(a, m, 1, 0)

\* a * 2^k
ShiftLeft(a, k) ==
    IF a = <<>> THEN a ELSE [i \in 1..(k \div 10) |-> 0] \o MulSmall(a, Pow2(k % 10))

\* <<floor(a / 2^k), whether a bit was shifted out>>
ShiftRight(a, k) ==
    IF k \div 10 >= Len(a) THEN <<<<>>, a # <<>>>>
    ELSE LET p == DivSmall(SubSeq(a, k \div 10 + 1, Len(a)), Pow2(k % 10))
         IN  <<p[1], p[2] # 0 \/ \E i \in 1..(k \div 10) : a[i] # 0>>

F64Zero == [sign |-> 1, mant |-> <<>>, exp |-> 0]

\* the double nearest to sign * (a + f) * 2^e, where 0 <= f < 1 and sticky
\* tells whether f > 0; a tie goes to the even neighbour.  With sticky, a has
\* 55 bits or more.
RoundBits(sign, a, e, sticky) ==
    IF a = <<>> THEN F64Zero
    ELSE IF BitLength(a) <= 53
    THEN [sign |-> sign, mant |-> ShiftLeft(a, 53 - BitLength(a)),
          exp |-> e - (53 - BitLength(a))]
    ELSE LET k == BitLength(a) - 53
             h == ShiftRight(a, k - 1)
             kept == DivSmall(h[1], 2)
             up == kept[2] = 1 /\ (sticky \/ h[2] \/ kept[1][1] % 2 = 1)
             r == IF up THEN NatAdd(kept[1], <<1>>) ELSE kept[1]
         IN  IF BitLength(r) = 54
             THEN [sign |-> sign, mant |-> DivSmall(r, 2)[1], exp |-> e + k + 1]
             ELSE [sign |-> sign, mant |-> r, exp |-> e + k]

\* the double a decimal numeral denotes: the nearest to the rational q, whose
\* denominator is below 2^21
F64(q) ==
    IF q[1] = 0 THEN F64Zero
    ELSE LET n == NatOf(Abs(q[1]))
             lead == 56 + IntBits(q[2]) - BitLength(n)
             p == DivSmall(ShiftLeft(n, IF lead > 0 THEN lead ELSE 0), q[2])
         IN  RoundBits(Sign(q[1]), p[1], 0 - (IF lead > 0 THEN lead ELSE 0), p[2] # 0)

\* x + y
F64Add(x, y) ==
    IF x.mant = <<>> THEN y
    ELSE IF y.mant = <<>> THEN x
    ELSE LET e == IF x.exp < y.exp THEN x.exp ELSE y.exp
             a == ShiftLeft(x.mant, x.exp - e)
             b == ShiftLeft(y.mant, y.exp - e)
         IN  IF x.sign = y.sign THEN RoundBits(x.sign, NatAdd(a, b), e, FALSE)
             ELSE IF NatLt(a, b) THEN RoundBits(y.sign, NatSub(b, a), e, FALSE)
             ELSE RoundBits(x.sign, NatSub(a, b), e, FALSE)

\* x / n for an integer n >= 1
F64DivInt(x, n) ==
    IF x.mant = <<>> THEN x
    ELSE LET p == DivSmall(ShiftLeft(x.mant, IntBits(n) + 3), n)
         IN  RoundBits(x.sign, p[1], x.exp - (IntBits(n) + 3), p[2] # 0)

\* Number.prototype.toFixed(p) of a double, p <= 6: the numeral k / 10^p
\* nearest to its exact value, the larger k at a tie
F64ToFixed(x, p) ==
    IF x.mant = <<>> THEN Txt(0, p)
    ELSE LET n == MulSmall(x.mant, Pow10(p))
             h == DivSmall(ShiftRight(n, 0 - x.exp - 1)[1], 2)
         IN  IF x.exp >= 0 THEN Txt(x.sign * IntOf(ShiftLeft(n, x.exp)), p)
             ELSE Txt(x.sign * (IntOf(h[1]) + h[2]), p)

----------------------------------------------------------------------------
(* Shell calculations form *)

DefaultCourse(k) ==
    [courseNumber |-> k, courseHeight |-> Txt(8, 0), stressValue |-> Txt(26700, 0),
     originalThickness |-> Empty, actualThickness |-> Empty, age |-> Txt(10, 0),
     H |-> Empty, tMin |-> Empty, corrosionRate |-> Empty, remainingLife |-> Empty]

\* useForm's defaultValues
ShellDefaultValues ==
    [fillHeight |-> Empty, specificGravity |-> Txt(10, 1), jointEfficiency |-> Txt(85, 2),
     courses |-> [k \in 1..5 |-> DefaultCourse(k)]]

\* the course addCourse appends: it has no age
NewCourse(k) == [DefaultCourse(k) EXCEPT !.age = Empty]

\* texts a user types into the form's inputs
FillHeightInputs == {Txt(40, 0), Txt(12, 0)}

SpecificGravityInputs == {Txt(8, 1)}

JointEfficiencyInputs == {Txt(10, 1), Txt(7, 1)}

CourseInputs ==
    [courseHeight |-> {Txt(0 - 8, 0)},
     stressValue |-> {Txt(0, 0), Txt(30000, 0)},
     originalThickness |-> {Txt(400, 3)},
     actualThickness |-> {Txt(485, 3), Txt(4999, 4)},
     age |-> {Txt(0, 0), Txt(0 - 5, 0)}]

\* the rows of the course table the user types into
EditedRows == {1}

\* H: distance from the bottom of course `index` to the liquid level
RECURSIVE HeadBelow(_, _, _)
HeadBelow(H, courses, i) ==
    IF i = 0 THEN H
    ELSE RSub(HeadBelow(H, courses, i - 1),
              parseFloat(OrElse(courses[i].courseHeight, Txt(8, 0))))

LiquidHead(fillHeight, courses, index) ==
    MathMax(Num(0), HeadBelow(fillHeight, courses, index - 1))

HydrostaticPressure(specificGravity, H) ==
    RMul(RMul(Norm(433, 1000), specificGravity), H)

RadiusInches(tankDiameter) == RDiv(RMul(tankDiameter, Num(12)), Num(2))

ShellDenominator(stressValue, jointEfficiency, P) ==
    RSub(RMul(stressValue, jointEfficiency), RMul(Norm(6, 10), P))

RequiredThickness(P, radiusInches, denominator) ==
    IF RGt(denominator, Num(0)) THEN RDiv(RMul(P, radiusInches), denominator) ELSE Num(0)

ShellTMin(requiredThickness) == requiredThickness

\* the rounding without the 0.050 floor
TMinRoundedUnfloored(tMin) == RDiv(RoundShift(tMin, 3), Num(1000))

TMinRounded(tMin) ==
    MathMax(Norm(50, 1000), RDiv(RoundShift(tMin, 3), Num(1000)))

\* the rate clamped at 0
ShellCorrosionRateClamped(originalThickness, actualThickness, age) ==
    IF RGt(age, Num(0))
    THEN MathMax(Num(0),
                 RMul(RDiv(RSub(originalThickness, actualThickness), age), Num(1000)))
    ELSE Num(0)

ShellCorrosionRate(originalThickness, actualThickness, age) ==
    IF RGt(age, Num(0))
    THEN RMul(RDiv(RSub(originalThickness, actualThickness), age), Num(1000))
    ELSE Num(0)

Round2(x) == RDiv(RoundShift(x, 2), Num(100))

\* the remaining life with 0 for a plate at or below its minimum thickness
ShellRemainingLifeZeroBelowMinimum(actualThickness, tMinRounded, corrosionRate) ==
    IF RGt(corrosionRate, Num(0))
    THEN RDiv(RSub(actualThickness, tMinRounded), RDiv(corrosionRate, Num(1000)))
    ELSE IF RLe(actualThickness, tMinRounded) THEN Num(0) ELSE Num(999)

ShellRemainingLife(actualThickness, tMinRounded, corrosionRate) ==
    IF RGt(corrosionRate, Num(0))
    THEN RDiv(RSub(actualThickness, tMinRounded), RDiv(corrosionRate, Num(1000)))
    ELSE Num(999)

\* the rounding without the floor at 0
ShellRemainingLifeUnfloored(remainingLife) == MathMin(Num(999), MathRound(remainingLife))

ShellRemainingLifeRounded(remainingLife) ==
    MathMax(Num(0), MathMin(Num(999), MathRound(remainingLife)))

TankDiameter(report) ==
    IF report.nominalDiameter # Empty THEN parseFloat(report.nominalDiameter) ELSE Num(120)

\* the locals of one iteration of values.courses.map in calculateShell
ShellCourseLocals(values, tankDiameter, index) ==
    LET course == values.courses[index]
        fillHeight == parseFloat(OrElse(values.fillHeight, Txt(0, 0)))
        specificGravity == parseFloat(OrElse(values.specificGravity, Txt(10, 1)))
        jointEfficiency == parseFloat(OrElse(values.jointEfficiency, Txt(85, 2)))
        courseHeight == parseFloat(OrElse(course.courseHeight, Txt(8, 0)))
        stressValue == parseFloat(OrElse(course.stressValue, Txt(26700, 0)))
        originalThickness == parseFloat(OrElse(course.originalThickness, Txt(5, 1)))
        actualThickness == parseFloat(OrElse(course.actualThickness, Txt(45, 2)))
        age == parseFloat(OrElse(course.age, Txt(10, 0)))
        H == LiquidHead(fillHeight, values.courses, index)
        P == HydrostaticPressure(specificGravity, H)
        radiusInches == RadiusInches(tankDiameter)
        denominator == ShellDenominator(stressValue, jointEfficiency, P)
        requiredThickness == RequiredThickness(P, radiusInches, denominator)
        tMin == ShellTMin(requiredThickness)
        tMinRounded == TMinRounded(tMin)
        corrosionRate == ShellCorrosionRate(originalThickness, actualThickness, age)
        remainingLife == ShellRemainingLife(actualThickness, tMinRounded, corrosionRate)
    IN  [fillHeight |-> fillHeight, specificGravity |-> specificGravity,
         jointEfficiency |-> jointEfficiency, tankDiameter |-> tankDiameter,
         courseHeight |-> courseHeight, stressValue |-> stressValue,
         originalThickness |-> originalThickness, actualThickness |-> actualThickness,
         age |-> age, H |-> H, P |-> P, denominator |-> denominator,
         requiredThickness |-> requiredThickness, tMin |-> tMin,
         tMinRounded |-> tMinRounded, corrosionRate |-> corrosionRate,
         corrosionRateRounded |-> Round2(corrosionRate),
         remainingLife |-> remainingLife,
         remainingLifeRounded |-> ShellRemainingLifeRounded(remainingLife),
         written |-> [H |-> toFixed(H, 1),
                      tMin |-> toFixed(tMinRounded, 3),
                      corrosionRate |-> toFixed(Round2(corrosionRate), 2),
                      remainingLife |->
                          toString(ShellRemainingLifeRounded(remainingLife))]]

\* the course record one iteration returns
ShellCourseWritten(course, l) ==
    [course EXCEPT !.H = l.written.H,
                   !.tMin = l.written.tMin,
                   !.corrosionRate = l.written.corrosionRate,
                   !.remainingLife = l.written.remainingLife]

\* the locals of values.courses.map, one element for each course
ShellLocals(values, report) ==
    [i \in DOMAIN values.courses |-> ShellCourseLocals(values, TankDiameter(report), i)]

\* the form after form.setValue('courses', updatedCourses)
ShellWritten(values, locals) ==
    [values EXCEPT
        !.courses = [i \in DOMAIN values.courses |->
                        ShellCourseWritten(values.courses[i], locals[i])]]

calculateShell ==
    /\ activeTab = "shell-calculations"
    /\ calc' = [op |-> "calculateShell", courses |-> ShellLocals(shellForm, reportData)]
    /\ shellForm' = ShellWritten(shellForm, calc'.courses)
    /\ toast' = "Calculations Complete"
    /\ UNCHANGED <<activeTab, edits, reportData, roofForm, floorForm, nozzleForm, settlement,
                   cmlRecords>>
    /\ UNCHANGED serverVars

addCourse ==
    /\ activeTab = "shell-calculations"
    /\ edits < MaxEdits
    /\ edits' = edits + 1
    /\ LET courses == shellForm.courses
       IN  shellForm' = [shellForm EXCEPT
                            !.courses = Append(courses, NewCourse(Len(courses) + 1))]
    /\ UNCHANGED <<activeTab, reportData, roofForm, floorForm, nozzleForm, settlement,
                   cmlRecords, calc, toast>>
    /\ UNCHANGED serverVars

\* courses.filter((_, i) => i !== index), index counted from 1 here
RemoveAt(s, index) ==
    [i \in 1..(Len(s) - 1) |-> IF i < index THEN s[i] ELSE s[i + 1]]

\* removeCourse without its test of the number of courses
removeCourseUnguarded(index) ==
    /\ activeTab = "shell-calculations"
    /\ edits < MaxEdits
    /\ edits' = edits + 1
    /\ shellForm' = [shellForm EXCEPT !.courses = RemoveAt(shellForm.courses, index)]
    /\ UNCHANGED <<activeTab, reportData, roofForm, floorForm, nozzleForm, settlement,
                   cmlRecords, calc, toast>>
    /\ UNCHANGED serverVars

removeCourse(index) ==
    /\ activeTab = "shell-calculations"
    /\ edits < MaxEdits
    /\ edits' = edits + 1
    /\ LET courses == shellForm.courses
       IN  IF Len(courses) > 1
           THEN shellForm' = [shellForm EXCEPT !.courses = RemoveAt(courses, index)]
           ELSE UNCHANGED shellForm
    /\ UNCHANGED <<activeTab, reportData, roofForm, floorForm, nozzleForm, settlement,
                   cmlRecords, calc, toast>>
    /\ UNCHANGED serverVars

\* onChange of the fill height, specific gravity and joint efficiency fields
ShellSetField(field, text) ==
    /\ activeTab = "shell-calculations"
    /\ edits < MaxEdits
    /\ edits' = edits + 1
    /\ shellForm' = [shellForm EXCEPT ![field] = text]
    /\ UNCHANGED <<activeTab, reportData, roofForm, floorForm, nozzleForm, settlement,
                   cmlRecords, calc, toast>>
    /\ UNCHANGED serverVars

\* onChange of an input of the course table
ShellSetCourseField(index, field, text) ==
    /\ activeTab = "shell-calculations"
    /\ edits < MaxEdits
    /\ edits' = edits + 1
    /\ shellForm' = [shellForm EXCEPT !.courses[index][field] = text]
    /\ UNCHANGED <<activeTab, reportData, roofForm, floorForm, nozzleForm, settlement,
                   cmlRecords, calc, toast>>
    /\ UNCHANGED serverVars

\* forms the server holds for a report, as the form saved them: the three
\* upper courses have been removed
SavedShellData ==
    {[ShellDefaultValues EXCEPT !.courses = [k \in 1..2 |-> DefaultCourse(k)]]}

\* the effect on savedData: form.reset(savedData), before the user has touched
\* the form
LoadSavedShellData(savedData) ==
    /\ activeTab = "shell-calculations"
    /\ shellForm = ShellDefaultValues
    /\ shellForm' = savedData
    /\ UNCHANGED <<activeTab, edits, reportData, roofForm, floorForm, nozzleForm,
                   settlement, cmlRecords, calc, toast>>
    /\ UNCHANGED serverVars

ShellNext ==
    \/ calculateShell
    \/ \E savedData \in SavedShellData : LoadSavedShellData(savedData)
    \/ addCourse
    \/ \E index \in DOMAIN shellForm.courses : removeCourse(index)
    \/ \E text \in FillHeightInputs : ShellSetField("fillHeight", text)
    \/ \E text \in SpecificGravityInputs : ShellSetField("specificGravity", text)
    \/ \E text \in JointEfficiencyInputs : ShellSetField("jointEfficiency", text)
    \/ \E index \in DOMAIN shellForm.courses \cap EditedRows, field \in DOMAIN CourseInputs :
           \E text \in CourseInputs[field] : ShellSetCourseField(index, field, text)

----------------------------------------------------------------------------
(* The standalone calculateShell of the test script *)

TestCalculateShell(params) ==
    LET H == params.fillHeight
        P == RMul(RMul(Norm(433, 1000), params.specificGravity), H)
        radiusInches == RDiv(RMul(params.tankDiameter, Num(12)), Num(2))
        requiredThickness ==
            RDiv(RMul(P, radiusInches),
                 RSub(RMul(params.stressValue, params.jointEfficiency),
                      RMul(Norm(6, 10), P)))
        corrosionAllowance == Norm(100, 1000)
        tMin == RAdd(requiredThickness, corrosionAllowance)
        thicknessLoss == RSub(params.originalThickness, params.actualThickness)
        corrosionRate ==
            IF RGt(params.age, Num(0))
            THEN RMul(RDiv(thicknessLoss, params.age), Num(1000))
            ELSE Num(0)
        remainingThickness == RSub(params.actualThickness, tMin)
        remainingLife ==
            IF RGt(corrosionRate, Num(0))
            THEN RDiv(remainingThickness, RDiv(corrosionRate, Num(1000)))
            ELSE Num(999)
    IN  [pressure |-> P, requiredThickness |-> requiredThickness, tMin |-> tMin,
         corrosionRate |-> corrosionRate, remainingLife |-> remainingLife]

\* the script's testParams
testParams ==
    [fillHeight |-> Num(40), specificGravity |-> Num(1), jointEfficiency |-> Norm(85, 100),
     tankDiameter |-> Num(120), courseHeight |-> Num(8), stressValue |-> Num(26700),
     originalThickness |-> Norm(500, 1000), actualThickness |-> Norm(485, 1000),
     age |-> Num(10)]

----------------------------------------------------------------------------
(* Roof calculations form *)

\* useForm's defaultValues
RoofDefaultValues ==
    [roofPlateThickness |-> Txt(250, 3), roofPlateActual |-> Empty,
     roofAge |-> Txt(20, 0),
     deckPlateThickness |-> Txt(437, 3), deckPlateActual |-> Empty,
     supportedByRafters |-> "yes", rafterSpacing |-> Txt(5, 0),
     liveLoad |-> Txt(25, 0), snowLoad |-> Txt(0, 0),
     tMinDeck |-> Empty, tMinRoof |-> Empty,
     corrosionRateDeck |-> Empty, corrosionRateRoof |-> Empty,
     remainingLifeDeck |-> Empty, remainingLifeRoof |-> Empty]

\* values the form's fields take: typed into their inputs, or, for roofAge that
\* has no input, held by the saved data the form is reset to
RoofInputs ==
    [roofPlateActual |-> {Txt(260, 3), Txt(50, 3)},
     deckPlateActual |-> {Txt(900, 3)},
     roofAge |-> {Txt(0, 0)},
     liveLoad |-> {Txt(0, 0), Txt(0 - 25, 0)},
     supportedByRafters |-> {"no"}]

\* the largest k in lo..hi with (2k - 1)^2 <= q4 (lo when there is none)
RECURSIVE RootSearch(_, _, _)
RootSearch(q4, lo, hi) ==
    IF lo = hi THEN lo
    ELSE LET mid == (lo + hi + 1) \div 2
         IN  IF RLe(Num((2 * mid - 1) * (2 * mid - 1)), q4)
             THEN RootSearch(q4, mid, hi)
             ELSE RootSearch(q4, lo, mid - 1)

\* Math.round(Math.sqrt(q) * 1000): k with k - 1/2 <= 1000 * sqrt(q) < k + 1/2
RoundSqrt1000(q) ==
    IF IsNaN(q) \/ q[1] < 0 THEN NaN
    ELSE IF ~IsFinite(q) THEN Infinity
    ELSE Num(RootSearch(RMul(Num(4000000), q), 0, 1000 * (q[1] \div q[2] + 1)))

\* tMinDeck after the rounding of line 145
RoofTMinDeck(supportedByRafters, liveLoad, snowLoad, rafterSpacing) ==
    LET totalLoad == RAdd(liveLoad, snowLoad)
        span == RMul(rafterSpacing, Num(12))
        q == RDiv(RMul(totalLoad, RMul(span, span)), RMul(Num(30000), Norm(48, 10)))
        rounded == IF supportedByRafters = "yes" THEN RoundSqrt1000(q) ELSE Num(94)
    IN  MathMax(Norm(94, 1000), RDiv(rounded, Num(1000)))

RoofTMinRoof == Norm(94, 1000)

RoofCorrosionRate(plateThickness, plateActual, roofAge) ==
    IF RGt(roofAge, Num(0))
    THEN RMul(RDiv(RSub(plateThickness, plateActual), roofAge), Num(1000))
    ELSE Num(0)

RoofRemainingLife(plateActual, tMin, corrosionRate) ==
    IF RGt(corrosionRate, Num(0))
    THEN RDiv(RSub(plateActual, tMin), RDiv(corrosionRate, Num(1000)))
    ELSE Num(999)

\* the remaining life as calculateRoof writes it
RoofRemainingLifeWritten(remainingLife) ==
    toString(MathMin(Num(999), MathRound(remainingLife)))

\* the locals of calculateRoof
RoofLocals(values) ==
    LET roofPlateThickness == parseFloat(OrElse(values.roofPlateThickness, Txt(250, 3)))
        roofPlateActual == parseFloat(OrElse(values.roofPlateActual, Txt(225, 3)))
        deckPlateThickness == parseFloat(OrElse(values.deckPlateThickness, Txt(437, 3)))
        deckPlateActual == parseFloat(OrElse(values.deckPlateActual, Txt(400, 3)))
        roofAge == parseFloat(OrElse(values.roofAge, Txt(20, 0)))
        liveLoad == parseFloat(OrElse(values.liveLoad, Txt(25, 0)))
        snowLoad == parseFloat(OrElse(values.snowLoad, Txt(0, 0)))
        rafterSpacing == parseFloat(OrElse(values.rafterSpacing, Txt(5, 0)))
        tMinDeck == RoofTMinDeck(values.supportedByRafters, liveLoad, snowLoad,
                                 rafterSpacing)
        tMinRoof == RoofTMinRoof
        corrosionRateDeck == RoofCorrosionRate(deckPlateThickness, deckPlateActual, roofAge)
        corrosionRateRoof == RoofCorrosionRate(roofPlateThickness, roofPlateActual, roofAge)
        remainingLifeDeck == RoofRemainingLife(deckPlateActual, tMinDeck, corrosionRateDeck)
        remainingLifeRoof == RoofRemainingLife(roofPlateActual, tMinRoof, corrosionRateRoof)
    IN  [roofPlateThickness |-> roofPlateThickness, roofPlateActual |-> roofPlateActual,
         deckPlateThickness |-> deckPlateThickness, deckPlateActual |-> deckPlateActual,
         roofAge |-> roofAge, liveLoad |-> liveLoad, snowLoad |-> snowLoad,
         rafterSpacing |-> rafterSpacing,
         tMinDeck |-> tMinDeck, tMinRoof |-> tMinRoof,
         corrosionRateDeck |-> corrosionRateDeck, corrosionRateRoof |-> corrosionRateRoof,
         remainingLifeDeck |-> remainingLifeDeck, remainingLifeRoof |-> remainingLifeRoof,
         written |-> [tMinDeck |-> toFixed(tMinDeck, 3),
                      tMinRoof |-> toFixed(tMinRoof, 3),
                      corrosionRateDeck |-> toFixed(Round2(corrosionRateDeck), 2),
                      corrosionRateRoof |-> toFixed(Round2(corrosionRateRoof), 2),
                      remainingLifeDeck |-> RoofRemainingLifeWritten(remainingLifeDeck),
                      remainingLifeRoof |-> RoofRemainingLifeWritten(remainingLifeRoof)]]

\* the form after a run of calculateRoof that takes the deck's minimum
\* thickness for the remaining life from the form, where the run before left it
RoofWrittenFromForm(values, l) ==
    LET tMinDeck == parseFloat(OrElse(values.tMinDeck, Txt(94, 3)))
    IN  [values EXCEPT
            !.tMinDeck = l.written.tMinDeck,
            !.tMinRoof = l.written.tMinRoof,
            !.corrosionRateDeck = l.written.corrosionRateDeck,
            !.corrosionRateRoof = l.written.corrosionRateRoof,
            !.remainingLifeDeck =
                RoofRemainingLifeWritten(
                    RoofRemainingLife(l.deckPlateActual, tMinDeck, l.corrosionRateDeck)),
            !.remainingLifeRoof = l.written.remainingLifeRoof]

\* the form after the six form.setValue calls of calculateRoof
RoofWritten(values, l) ==
    [values EXCEPT
        !.tMinDeck = l.written.tMinDeck,
        !.tMinRoof = l.written.tMinRoof,
        !.corrosionRateDeck = l.written.corrosionRateDeck,
        !.corrosionRateRoof = l.written.corrosionRateRoof,
        !.remainingLifeDeck = l.written.remainingLifeDeck,
        !.remainingLifeRoof = l.written.remainingLifeRoof]

calculateRoof ==
    /\ activeTab = "roof-calculations"
    /\ calc' = [op |-> "calculateRoof"] @@ RoofLocals(roofForm)
    /\ roofForm' = RoofWritten(roofForm, calc')
    /\ toast' = "Calculations Complete"
    /\ UNCHANGED <<activeTab, edits, reportData, shellForm, floorForm, nozzleForm,
                   settlement, cmlRecords>>
    /\ UNCHANGED serverVars

\* a field of the roof form takes a value (onChange of its input; roofAge by
\* form.reset(savedData))
RoofSetField(field, value) ==
    /\ activeTab = "roof-calculations"
    /\ edits < MaxEdits
    /\ edits' = edits + 1
    /\ roofForm' = [roofForm EXCEPT ![field] = value]
    /\ UNCHANGED <<activeTab, reportData, shellForm, floorForm, nozzleForm, settlement,
                   cmlRecords, calc, toast>>
    /\ UNCHANGED serverVars

RoofNext ==
    \/ calculateRoof
    \/ \E field \in DOMAIN RoofInputs :
           \E value \in RoofInputs[field] : RoofSetField(field, value)

----------------------------------------------------------------------------
(* Floor MRT calculations form *)

\* useForm's defaultValues
FloorDefaultValues ==
    [originalThickness |-> Txt(250, 3), minimumThickness |-> Txt(100, 3),
     age |-> Txt(20, 0), scans |-> <<>>,
     averageThickness |-> Empty, minimumRecorded |-> Empty,
     averageCorrosionRate |-> Empty, maximumCorrosionRate |-> Empty,
     averageRemainingLife |-> Empty, minimumRemainingLife |-> Empty]

\* the scan addScan appends
NewScan(k) ==
    [scanId |-> k, thickness |-> Empty, corrosionRate |-> Empty, remainingLife |-> Empty]

\* ages held by the saved data the form is reset to (the field has no input)
FloorAgeInputs == {Txt(0, 0)}

\* texts a user types into the thickness input of a scan
ScanThicknessInputs == {Txt(200, 3), Txt(300, 3), Txt(1000000, 3)}

FloorCorrosionRate(originalThickness, thickness, age) ==
    IF RGt(age, Num(0))
    THEN RMul(RDiv(RSub(originalThickness, thickness), age), Num(1000))
    ELSE Num(0)

FloorRemainingLife(thickness, minimumThickness, corrosionRate) ==
    IF RGt(corrosionRate, Num(0))
    THEN RDiv(RSub(thickness, minimumThickness), RDiv(corrosionRate, Num(1000)))
    ELSE Num(999)

\* a remaining life as calculateFloorMRT writes it
FloorRemainingLifeWritten(remainingLife) ==
    toString(MathMin(Num(999), MathRound(remainingLife)))

\* the locals of one iteration of scans.forEach
ScanLocals(scan, originalThickness, minimumThickness, age) ==
    LET thickness == parseFloat(OrElse(scan.thickness, Txt(0, 0)))
        corrosionRate == FloorCorrosionRate(originalThickness, thickness, age)
        remainingLife == FloorRemainingLife(thickness, minimumThickness, corrosionRate)
    IN  [thickness |-> thickness, corrosionRate |-> corrosionRate,
         remainingLife |-> remainingLife,
         written |-> [corrosionRate |-> toFixed(Round2(corrosionRate), 2),
                      remainingLife |-> FloorRemainingLifeWritten(remainingLife)]]

\* totalThickness, minThickness and maxCorrosionRate after the first n scans
RECURSIVE ScanTotals(_, _)
ScanTotals(scans, n) ==
    IF n = 0
    THEN [totalThickness |-> Num(0), minThickness |-> Num(999), maxCorrosionRate |-> Num(0)]
    ELSE LET t == ScanTotals(scans, n - 1)
             l == scans[n]
         IN  [totalThickness |-> RAdd(t.totalThickness, l.thickness),
              minThickness |-> IF RLt(l.thickness, t.minThickness)
                               THEN l.thickness ELSE t.minThickness,
              maxCorrosionRate |-> IF RGt(l.corrosionRate, t.maxCorrosionRate)
                                   THEN l.corrosionRate ELSE t.maxCorrosionRate]

\* the locals of calculateFloorMRT on a list of scans that is not empty
FloorLocals(values) ==
    LET originalThickness == parseFloat(OrElse(values.originalThickness, Txt(250, 3)))
        minimumThickness == parseFloat(OrElse(values.minimumThickness, Txt(100, 3)))
        age == parseFloat(OrElse(values.age, Txt(20, 0)))
        scans == [i \in DOMAIN values.scans |->
                     ScanLocals(values.scans[i], originalThickness, minimumThickness, age)]
        t == ScanTotals(scans, Len(scans))
        averageThickness == RDiv(t.totalThickness, Num(Len(scans)))
        avgCorrosionRate == FloorCorrosionRate(originalThickness, averageThickness, age)
        avgRemainingLife == FloorRemainingLife(averageThickness, minimumThickness,
                                               avgCorrosionRate)
        minRemainingLife == FloorRemainingLife(t.minThickness, minimumThickness,
                                               t.maxCorrosionRate)
    IN  [originalThickness |-> originalThickness, minimumThickness |-> minimumThickness,
         age |-> age, scans |-> scans,
         averageThickness |-> averageThickness, minThickness |-> t.minThickness,
         avgCorrosionRate |-> avgCorrosionRate, maxCorrosionRate |-> t.maxCorrosionRate,
         avgRemainingLife |-> avgRemainingLife, minRemainingLife |-> minRemainingLife,
         written |-> [averageThickness |-> toFixed(averageThickness, 3),
                      minimumRecorded |-> toFixed(t.minThickness, 3),
                      averageCorrosionRate |-> toFixed(Round2(avgCorrosionRate), 2),
                      maximumCorrosionRate |-> toFixed(Round2(t.maxCorrosionRate), 2),
                      averageRemainingLife |-> FloorRemainingLifeWritten(avgRemainingLife),
                      minimumRemainingLife |-> FloorRemainingLifeWritten(minRemainingLife)]]

\* the form after the form.setValue calls of calculateFloorMRT
FloorWritten(values, l) ==
    [values EXCEPT
        !.averageThickness = l.written.averageThickness,
        !.minimumRecorded = l.written.minimumRecorded,
        !.averageCorrosionRate = l.written.averageCorrosionRate,
        !.maximumCorrosionRate = l.written.maximumCorrosionRate,
        !.averageRemainingLife = l.written.averageRemainingLife,
        !.minimumRemainingLife = l.written.minimumRemainingLife,
        !.scans = [i \in DOMAIN values.scans |->
                      [values.scans[i] EXCEPT
                          !.corrosionRate = l.scans[i].written.corrosionRate,
                          !.remainingLife = l.scans[i].written.remainingLife]]]

calculateFloorMRT ==
    /\ activeTab = "floor-calculations"
    /\ IF Len(floorForm.scans) > 0
       THEN /\ calc' = [op |-> "calculateFloorMRT"] @@ FloorLocals(floorForm)
            /\ floorForm' = FloorWritten(floorForm, calc')
       ELSE /\ calc' = [op |-> "calculateFloorMRT", scans |-> <<>>]
            /\ UNCHANGED floorForm
    /\ toast' = "Calculations Complete"
    /\ UNCHANGED <<activeTab, edits, reportData, shellForm, roofForm, nozzleForm,
                   settlement, cmlRecords>>
    /\ UNCHANGED serverVars

addScan ==
    /\ activeTab = "floor-calculations"
    /\ edits < MaxEdits
    /\ edits' = edits + 1
    /\ floorForm' = [floorForm EXCEPT
                        !.scans = Append(floorForm.scans, NewScan(Len(floorForm.scans) + 1))]
    /\ UNCHANGED <<activeTab, reportData, shellForm, roofForm, nozzleForm,
                   settlement, cmlRecords, calc, toast>>
    /\ UNCHANGED serverVars

removeScan(index) ==
    /\ activeTab = "floor-calculations"
    /\ edits < MaxEdits
    /\ edits' = edits + 1
    /\ floorForm' = [floorForm EXCEPT !.scans = RemoveAt(floorForm.scans, index)]
    /\ UNCHANGED <<activeTab, reportData, shellForm, roofForm, nozzleForm,
                   settlement, cmlRecords, calc, toast>>
    /\ UNCHANGED serverVars

\* the age field takes the value of the saved data (form.reset(savedData))
FloorSetAge(text) ==
    /\ activeTab = "floor-calculations"
    /\ edits < MaxEdits
    /\ edits' = edits + 1
    /\ floorForm' = [floorForm EXCEPT !.age = text]
    /\ UNCHANGED <<activeTab, reportData, shellForm, roofForm, nozzleForm, settlement,
                   cmlRecords, calc, toast>>
    /\ UNCHANGED serverVars

\* onChange of the thickness input of a scan
FloorSetScanThickness(index, text) ==
    /\ activeTab = "floor-calculations"
    /\ edits < MaxEdits
    /\ edits' = edits + 1
    /\ floorForm' = [floorForm EXCEPT !.scans[index].thickness = text]
    /\ UNCHANGED <<activeTab, reportData, shellForm, roofForm, nozzleForm, settlement,
                   cmlRecords, calc, toast>>
    /\ UNCHANGED serverVars

FloorNext ==
    \/ calculateFloorMRT
    \/ addScan
    \/ \E index \in DOMAIN floorForm.scans : removeScan(index)
    \/ \E text \in FloorAgeInputs : FloorSetAge(text)
    \/ \E index \in DOMAIN floorForm.scans, text \in ScanThicknessInputs :
           FloorSetScanThickness(index, text)

----------------------------------------------------------------------------
(* lib/calculations and the component CML form *)

\* the report before its query has resolved: every field is undefined
NoReport == [nominalDiameter |-> Empty, originalThickness |-> Empty, age |-> Empty]

\* reports the query returns
Reports ==
    {[nominalDiameter |-> Txt(60, 0), originalThickness |-> Txt(500, 3), age |-> Num(10)],
     [nominalDiameter |-> Txt(0 - 60, 0), originalThickness |-> Txt(250, 3),
      age |-> Num(0 - 3)]}

calculateCorrosionRate(params) ==
    LET originalMils == RMul(params.originalThickness, Num(1000))
        currentMils == RMul(params.currentThickness, Num(1000))
        practicalTminMils == RMul(params.practicalTmin, Num(1000))
        metalLoss == RSub(originalMils, currentMils)
        corrosionRate == IF RGt(params.serviceYears, Num(0))
                         THEN RDiv(metalLoss, params.serviceYears) ELSE Num(0)
        remainingMetal == RSub(currentMils, practicalTminMils)
        remainingLife == IF RGt(corrosionRate, Num(0))
                         THEN RDiv(remainingMetal, corrosionRate) ELSE Infinity
    IN  [metalLoss |-> RDiv(metalLoss, Num(1000)),
         corrosionRate |-> corrosionRate,
         remainingMetal |-> RDiv(remainingMetal, Num(1000)),
         remainingLife |-> MathMax(Num(0), remainingLife)]

\* a number in the JSON body of a request: Infinity and NaN become null
JsonNumber(x) == IF IsFinite(x) THEN x ELSE Empty

\* a number in a condition: false for undefined, 0 and NaN
Truthy(x) == x # Empty /\ ~IsNaN(x) /\ x # Num(0)

ComponentInputs == {"", "Shell"}

LocationInputs == {"North"}

ReadingInputs == {Empty, Txt(450, 3), Txt(600, 3), Txt(100, 3)}

\* the record the server stores for a new CML
NewCmlRecord(k, component, location) ==
    [cmlId |-> k, component |-> component, location |-> location,
     currentReading |-> Empty, corrosionRate |-> Empty, remainingLife |-> Empty]

\* handleCreateCml with its mutation and the refetch of the records
handleCreateCml(component, location) ==
    /\ activeTab = "component-cml"
    /\ edits < MaxEdits
    /\ edits' = edits + 1
    /\ IF component = "" \/ location = ""
       THEN /\ toast' = "Missing required fields"
            /\ UNCHANGED cmlRecords
       ELSE /\ cmlRecords' = Append(cmlRecords,
                                    NewCmlRecord(Len(cmlRecords) + 1, component, location))
            /\ toast' = "CML record created successfully"
    /\ UNCHANGED <<activeTab, reportData, shellForm, roofForm, floorForm, nozzleForm,
                   settlement, calc>>
    /\ UNCHANGED serverVars

\* handleUpdateReading(id, 'currentReading', value) with its mutation and the
\* refetch of the records
handleUpdateReading(index, value) ==
    LET numValue == IF value # Empty THEN parseFloat(value) ELSE Empty
        params == [originalThickness |-> parseFloat(reportData.originalThickness),
                   currentThickness |-> numValue,
                   serviceYears |-> reportData.age,
                   practicalTmin |-> Norm(125, 1000)]
    IN  /\ activeTab = "component-cml"
        /\ edits < MaxEdits
        /\ edits' = edits + 1
        /\ IF Truthy(numValue) /\ reportData.originalThickness # Empty
              /\ Truthy(reportData.age)
           THEN /\ calc' = [op |-> "calculateCorrosionRate", params |-> params,
                            result |-> calculateCorrosionRate(params)]
                /\ cmlRecords' =
                      [cmlRecords EXCEPT
                          ![index].currentReading = JsonNumber(numValue),
                          ![index].corrosionRate = JsonNumber(calc'.result.corrosionRate),
                          ![index].remainingLife = JsonNumber(calc'.result.remainingLife)]
           ELSE /\ cmlRecords' =
                      [cmlRecords EXCEPT
                          ![index].currentReading =
                              IF numValue = Empty THEN @ ELSE JsonNumber(numValue)]
                /\ UNCHANGED calc
        /\ toast' = "CML record updated successfully"
        /\ UNCHANGED <<activeTab, reportData, shellForm, roofForm, floorForm, nozzleForm,
                       settlement>>
        /\ UNCHANGED serverVars

\* deleteCmlMutation.mutate(cml.id) with the refetch of the records
deleteCml(index) ==
    /\ activeTab = "component-cml"
    /\ edits < MaxEdits
    /\ edits' = edits + 1
    /\ cmlRecords' = RemoveAt(cmlRecords, index)
    /\ toast' = "CML record deleted successfully"
    /\ UNCHANGED <<activeTab, reportData, shellForm, roofForm, floorForm, nozzleForm,
                   settlement, calc>>
    /\ UNCHANGED serverVars

CmlNext ==
    \/ \E component \in ComponentInputs, location \in LocationInputs :
           handleCreateCml(component, location)
    \/ \E index \in DOMAIN cmlRecords : deleteCml(index)
    \/ \E index \in DOMAIN cmlRecords, value \in ReadingInputs :
           handleUpdateReading(index, value)

----------------------------------------------------------------------------
(* calculateStatistics of lib/calculations and the calculations summary that
   calls it on the corrosion rates of the report's CML records *)

\* the longest list of CML records the server holds in the model
StatMaxLen == 42

\* A rate is held as the decimal it is written with and stands for the double
\* nearest to it; the order of two rates is the order of their doubles.

\* x put into an ascending list, by the comparison (a, b) => a - b
RECURSIVE InsertAscending(_, _)
InsertAscending(sorted, x) ==
    IF sorted = <<>> THEN <<x>>
    ELSE IF RLt(x, Head(sorted)) THEN <<x>> \o sorted
    ELSE <<Head(sorted)>> \o InsertAscending(Tail(sorted), x)

\* [...corrosionRates].sort((a, b) => a - b) of the first n rates
RECURSIVE SortAscending(_, _)
SortAscending(rates, n) ==
    IF n = 0 THEN <<>> ELSE InsertAscending(SortAscending(rates, n - 1), rates[n])

\* corrosionRates.reduce((sum, rate) => sum + rate, 0) over the first n rates,
\* each addition rounded to a double (prev and rate range over sets of one
\* element, which makes them values before they are added)
RECURSIVE SumRates(_, _)
SumRates(rates, n) ==
    IF n = 0 THEN F64Zero
    ELSE CHOOSE sum \in {F64Add(prev, rate) : prev \in {SumRates(rates, n - 1)},
                                              rate \in {F64(rates[n])}} : TRUE

\* Math.max(...corrosionRates) over the first n >= 1 rates
RECURSIVE MaxRate(_, _)
MaxRate(rates, n) ==
    IF n = 1 THEN rates[1] ELSE MathMax(MaxRate(rates, n - 1), rates[n])

\* index95 of a list of `length` rates at the 90th percentile
Index90(length) == (90 * length) \div 100

\* index95: Math.floor(0.95 * sorted.length), which for a length below 400 is
\* the floor of the exact product
Index95(length) == (95 * length) \div 100

\* sorted[Math.min(index95, sorted.length - 1)], the list counted from 0
Percentile95(sorted, index95) ==
    sorted[IF index95 < Len(sorted) - 1 THEN index95 + 1 ELSE Len(sorted)]

\* Number(x.toFixed(2)) of a double
NumberFixed2(x) == parseFloat(F64ToFixed(x, 2))

\* the locals of calculateStatistics, its result, and the caller's array after
\* the call (the sort works on a copy)
calculateStatistics(corrosionRates) ==
    IF Len(corrosionRates) = 0
    THEN [corrosionRates |-> corrosionRates, sorted |-> <<>>,
          result |-> [average |-> Num(0), maximum |-> Num(0), percentile95 |-> Num(0)]]
    ELSE LET sorted == SortAscending(corrosionRates, Len(corrosionRates))
             average == F64DivInt(SumRates(corrosionRates, Len(corrosionRates)),
                                  Len(corrosionRates))
             maximum == MaxRate(corrosionRates, Len(corrosionRates))
             index95 == Index95(Len(sorted))
             percentile95 == Percentile95(sorted, index95)
         IN  [corrosionRates |-> corrosionRates, sorted |-> sorted,
              average |-> average, maximum |-> maximum, index95 |-> index95,
              percentile95 |-> percentile95,
              result |-> [average |-> NumberFixed2(average),
                          maximum |-> NumberFixed2(F64(maximum)),
                          percentile95 |-> NumberFixed2(F64(percentile95))]]

\* cmlRecords.filter(cml => cml.corrosionRate).map(cml => parseFloat(..))
RECURSIVE CmlCorrosionRates(_, _)
CmlCorrosionRates(records, n) ==
    IF n = 0 THEN <<>>
    ELSE IF Truthy(records[n].corrosionRate)
         THEN Append(CmlCorrosionRates(records, n - 1), records[n].corrosionRate)
         ELSE CmlCorrosionRates(records, n - 1)

\* the calculations summary renders: stats = calculateStatistics(corrosionRates)
CalculationsForm ==
    /\ activeTab = "calculations"
    /\ calc' = [op |-> "calculateStatistics"]
                   @@ calculateStatistics(CmlCorrosionRates(cmlRecords, Len(cmlRecords)))
    /\ UNCHANGED <<activeTab, edits, reportData, shellForm, roofForm, floorForm,
                   nozzleForm, settlement, cmlRecords, toast>>
    /\ UNCHANGED serverVars

\* n corrosion rates, all `low` but the one at `spike` (none when spike is 0)
SpikeRates(n, spike, low, high) == [i \in 1..n |-> IF i = spike THEN high ELSE low]

\* lists of CML records the server holds for a report, by their corrosion rates
ServerCmlRecords ==
    {[i \in 1..n |->
         [NewCmlRecord(i, "Shell", "North") EXCEPT
             !.corrosionRate = SpikeRates(n, spike, low, Num(100))[i]]] :
        n \in 0..StatMaxLen, spike \in {0, 1, 2},
        low \in {Norm(1234, 1000), Norm(1005, 1000), Num(0 - 2)}}

----------------------------------------------------------------------------
(* Nozzle CML form.  A date is <<year, month, day>>, or Empty for ''; the
   model takes the browser's time zone to be UTC. *)

\* the dates new Date() gives when the form mounts
Todays == {<<2024, 2, 29>>}

PreviousDateInputs == {<<2014, 3, 1>>, <<2024, 2, 29>>}

\* what the current inspection date is changed to: the input is cleared
InspectionDateInputs == {Empty}

NozzleSizeInputs == {Txt(2, 0), NaNText}

NozzleScheduleInputs == {"80", "5S"}

NozzleThicknessInputs ==
    [previousThickness |-> {Txt(500, 3)}, currentThickness |-> {Txt(400, 3), Empty}]

\* days from 1970-01-01 to a date of the proleptic Gregorian calendar
DaysFromCivil(date) ==
    LET y == IF date[2] <= 2 THEN date[1] - 1 ELSE date[1]
        era == y \div 400
        yoe == y - era * 400
        mp == IF date[2] > 2 THEN date[2] - 3 ELSE date[2] + 9
        doy == (153 * mp + 2) \div 5 + date[3] - 1
        doe == yoe * 365 + yoe \div 4 - yoe \div 100 + doy
    IN  era * 146097 + doe - 719468

IsLeapYear(y) == y % 4 = 0 /\ (y % 100 # 0 \/ y % 400 = 0)

\* setFullYear(getFullYear() + years) followed by toISOString().split('T')[0]
AddYears(date, years) ==
    IF date[2] = 2 /\ date[3] = 29 /\ ~IsLeapYear(date[1] + years)
    THEN <<date[1] + years, 3, 1>>
    ELSE <<date[1] + years, date[2], date[3]>>

\* (getTime() - getTime()) / (365.25 * 24 * 60 * 60 * 1000)
YearsBetween(inspectionDate, previousInspectionDate) ==
    RDiv(Num(DaysFromCivil(inspectionDate) - DaysFromCivil(previousInspectionDate)),
         Norm(36525, 100))

ScheduleFactors ==
    [schedule \in {"10", "20", "30", "40", "STD", "60", "80", "XS", "120", "160", "XXS"} |->
        CASE schedule = "10" -> Norm(65, 1000)
          [] schedule = "20" -> Norm(75, 1000)
          [] schedule = "30" -> Norm(85, 1000)
          [] schedule \in {"40", "STD"} -> Norm(95, 1000)
          [] schedule = "60" -> Norm(110, 1000)
          [] schedule \in {"80", "XS"} -> Norm(125, 1000)
          [] schedule = "120" -> Norm(150, 1000)
          [] schedule = "160" -> Norm(175, 1000)
          [] schedule = "XXS" -> Norm(200, 1000)]

\* x || 0 for a number x
OrZero(x) == IF Truthy(x) THEN x ELSE Num(0)

\* calculateNozzleTmin taking an unlisted schedule for extra strong pipe
calculateNozzleTminDefaultXS(size, schedule) ==
    LET sizeInches == OrZero(parseFloat(size))
        factor == IF schedule \in DOMAIN ScheduleFactors
                  THEN ScheduleFactors[schedule] ELSE Norm(125, 1000)
    IN  RDiv(RoundShift(RMul(sizeInches, factor), 3), Num(1000))

calculateNozzleTmin(size, schedule) ==
    LET sizeInches == OrZero(parseFloat(size))
        factor == IF schedule \in DOMAIN ScheduleFactors
                  THEN ScheduleFactors[schedule] ELSE Norm(95, 1000)
    IN  RDiv(RoundShift(RMul(sizeInches, factor), 3), Num(1000))

\* useState's initial formData
NozzleInitialData(today) ==
    [records |-> <<>>, inspectionDate |-> today, previousInspectionDate |-> Empty]

NewNozzleRecord ==
    [nozzleSize |-> Empty, nozzleSchedule |-> "40",
     previousThickness |-> Num(0), currentThickness |-> Num(0),
     tMin |-> Num(0), corrosionRate |-> Num(0), remainingLife |-> Num(0),
     nextInspectionDate |-> Empty]

\* the locals of one iteration of formData.records.map
NozzleRecordLocals(record, inspectionDate, yearsBetween) ==
    LET thicknessLoss == RMul(RSub(record.previousThickness, record.currentThickness),
                              Num(1000))
        corrosionRate == IF RGt(yearsBetween, Num(0))
                         THEN RDiv(thicknessLoss, yearsBetween) ELSE Num(0)
        tMin == calculateNozzleTmin(record.nozzleSize, record.nozzleSchedule)
        remainingThickness == RSub(record.currentThickness, tMin)
        remainingLife == IF RGt(corrosionRate, Num(0))
                         THEN RDiv(RMul(remainingThickness, Num(1000)), corrosionRate)
                         ELSE Num(999)
        halfLife == RDiv(remainingLife, Num(2))
        nextInspectionYears == MathMin(halfLife, Num(10))
    IN  [yearsBetween |-> yearsBetween, thicknessLoss |-> thicknessLoss,
         corrosionRate |-> corrosionRate, tMin |-> tMin,
         remainingLife |-> remainingLife,
         nextInspectionYears |-> nextInspectionYears,
         written |-> [tMin |-> tMin,
                      corrosionRate |-> Round2(corrosionRate),
                      remainingLife |-> RDiv(RoundShift(remainingLife, 1), Num(10)),
                      nextInspectionDate |->
                          AddYears(inspectionDate, MathFloor(nextInspectionYears)[1])]]

\* the locals of formData.records.map, one element for each record
NozzleLocals(data) ==
    [i \in DOMAIN data.records |->
        NozzleRecordLocals(data.records[i], data.inspectionDate,
                           YearsBetween(data.inspectionDate, data.previousInspectionDate))]

\* formData after setFormData({ ...formData, records: updatedRecords })
NozzleWritten(data, locals) ==
    [data EXCEPT
        !.records = [i \in DOMAIN data.records |->
            [data.records[i] EXCEPT
                !.tMin = locals[i].written.tMin,
                !.corrosionRate = locals[i].written.corrosionRate,
                !.remainingLife = locals[i].written.remainingLife,
                !.nextInspectionDate = locals[i].written.nextInspectionDate]]]

\* calculateNozzleMetrics dropping the records when a date is missing
calculateNozzleMetricsDropping ==
    /\ activeTab = "nozzle-cml"
    /\ IF nozzleForm.previousInspectionDate = Empty \/ nozzleForm.inspectionDate = Empty
       THEN /\ toast' = "Missing Dates"
            /\ nozzleForm' = [nozzleForm EXCEPT !.records = <<>>]
            /\ UNCHANGED calc
       ELSE /\ calc' = [op |-> "calculateNozzleMetrics", records |-> NozzleLocals(nozzleForm)]
            /\ nozzleForm' = NozzleWritten(nozzleForm, calc'.records)
            /\ toast' = "Calculations Complete"
    /\ UNCHANGED <<activeTab, edits, reportData, shellForm, roofForm, floorForm,
                   settlement, cmlRecords>>
    /\ UNCHANGED serverVars

calculateNozzleMetrics ==
    /\ activeTab = "nozzle-cml"
    /\ IF nozzleForm.previousInspectionDate = Empty \/ nozzleForm.inspectionDate = Empty
       THEN /\ toast' = "Missing Dates"
            /\ UNCHANGED <<nozzleForm, calc>>
       ELSE /\ calc' = [op |-> "calculateNozzleMetrics", records |-> NozzleLocals(nozzleForm)]
            /\ nozzleForm' = NozzleWritten(nozzleForm, calc'.records)
            /\ toast' = "Calculations Complete"
    /\ UNCHANGED <<activeTab, edits, reportData, shellForm, roofForm, floorForm,
                   settlement, cmlRecords>>
    /\ UNCHANGED serverVars

addNozzleRecord ==
    /\ activeTab = "nozzle-cml"
    /\ edits < MaxEdits
    /\ edits' = edits + 1
    /\ nozzleForm' = [nozzleForm EXCEPT !.records = Append(@, NewNozzleRecord)]
    /\ UNCHANGED <<activeTab, reportData, shellForm, roofForm, floorForm,
                   settlement, cmlRecords, calc, toast>>
    /\ UNCHANGED serverVars

updateRecord(index, field, value) ==
    /\ activeTab = "nozzle-cml"
    /\ edits < MaxEdits
    /\ edits' = edits + 1
    /\ nozzleForm' = [nozzleForm EXCEPT !.records[index][field] = value]
    /\ UNCHANGED <<activeTab, reportData, shellForm, roofForm, floorForm,
                   settlement, cmlRecords, calc, toast>>
    /\ UNCHANGED serverVars

removeRecord(index) ==
    /\ activeTab = "nozzle-cml"
    /\ edits < MaxEdits
    /\ edits' = edits + 1
    /\ nozzleForm' = [nozzleForm EXCEPT !.records = RemoveAt(@, index)]
    /\ UNCHANGED <<activeTab, reportData, shellForm, roofForm, floorForm,
                   settlement, cmlRecords, calc, toast>>
    /\ UNCHANGED serverVars

\* onChange of the previous inspection date
SetPreviousInspectionDate(date) ==
    /\ activeTab = "nozzle-cml"
    /\ edits < MaxEdits
    /\ edits' = edits + 1
    /\ nozzleForm' = [nozzleForm EXCEPT !.previousInspectionDate = date]
    /\ UNCHANGED <<activeTab, reportData, shellForm, roofForm, floorForm,
                   settlement, cmlRecords, calc, toast>>
    /\ UNCHANGED serverVars

\* onChange of the current inspection date
SetInspectionDate(date) ==
    /\ activeTab = "nozzle-cml"
    /\ edits < MaxEdits
    /\ edits' = edits + 1
    /\ nozzleForm' = [nozzleForm EXCEPT !.inspectionDate = date]
    /\ UNCHANGED <<activeTab, reportData, shellForm, roofForm, floorForm,
                   settlement, cmlRecords, calc, toast>>
    /\ UNCHANGED serverVars

\* forms the server holds for a report: a 2 inch nozzle and a 4 inch nozzle of
\* schedule XS whose tMin came from an imported sheet, surveyed at 0.500 and
\* then at 0.400
ExistingNozzleData ==
    {[records |-> <<[NewNozzleRecord EXCEPT
                        !.nozzleSize = Txt(2, 0), !.nozzleSchedule = "XS",
                        !.previousThickness = Norm(500, 1000),
                        !.currentThickness = Norm(400, 1000),
                        !.tMin = Norm(500, 1000)],
                    [NewNozzleRecord EXCEPT
                        !.nozzleSize = Txt(4, 0), !.nozzleSchedule = "XS",
                        !.previousThickness = Norm(500, 1000),
                        !.currentThickness = Norm(400, 1000),
                        !.tMin = Norm(100, 1000)]>>,
      inspectionDate |-> <<2024, 2, 29>>,
      previousInspectionDate |-> <<2014, 3, 1>>]}

\* the effect on existingData: the query answers with a saved form, before the
\* user has touched the form
LoadExistingNozzleData(existingData) ==
    /\ activeTab = "nozzle-cml"
    /\ nozzleForm \in {NozzleInitialData(today) : today \in Todays}
    /\ nozzleForm' = existingData
    /\ UNCHANGED <<activeTab, edits, reportData, shellForm, roofForm, floorForm,
                   settlement, cmlRecords, calc, toast>>
    /\ UNCHANGED serverVars

NozzleNext ==
    \/ calculateNozzleMetrics
    \/ \E existingData \in ExistingNozzleData : LoadExistingNozzleData(existingData)
    \/ addNozzleRecord
    \/ \E index \in DOMAIN nozzleForm.records : removeRecord(index)
    \/ \E date \in PreviousDateInputs : SetPreviousInspectionDate(date)
    \/ \E date \in InspectionDateInputs : SetInspectionDate(date)
    \/ \E index \in DOMAIN nozzleForm.records :
          \/ \E text \in NozzleSizeInputs : updateRecord(index, "nozzleSize", text)
          \/ \E schedule \in NozzleScheduleInputs :
                 updateRecord(index, "nozzleSchedule", schedule)
          \/ \E field \in DOMAIN NozzleThicknessInputs :
                 \E text \in NozzleThicknessInputs[field] :
                     updateRecord(index, field, OrZero(parseFloat(text)))

----------------------------------------------------------------------------
(* Settlement survey form.  The cosine and sine of a position are exact: a
   number of the plane fit is p + q * sqrt(2) with p and q rational, written
   <<p, q>>, which covers the positions that are multiples of 45 degrees. *)

\* the choices of the number-of-points Select the model takes
NumberOfPointsInputs == {8}

PositionInputs == {Txt(90, 0)}

ElevationInputs == {Txt(999, 1)}

\* the rows of the point table the user works on
EditedPoints == {1}

Surd(r) == <<r, Num(0)>>

SAdd(u, v) == <<RAdd(u[1], v[1]), RAdd(u[2], v[2])>>

SSub(u, v) == <<RSub(u[1], v[1]), RSub(u[2], v[2])>>

SMul(u, v) ==
    <<RAdd(RMul(u[1], v[1]), RMul(Num(2), RMul(u[2], v[2]))),
      RAdd(RMul(u[1], v[2]), RMul(u[2], v[1]))>>

\* u / v for v # 0, by the conjugate of v
SDiv(u, v) ==
    LET norm == RSub(RMul(v[1], v[1]), RMul(Num(2), RMul(v[2], v[2])))
        w == SMul(u, <<v[1], RNeg(v[2])>>)
    IN  <<RDiv(w[1], norm), RDiv(w[2], norm)>>

\* position / 45 modulo 8, for a position that is a multiple of 45 degrees
Octant(position) == RDiv(position, Num(45))[1] % 8

\* Math.cos((position * Math.PI) / 180)
MathCos(position) ==
    CASE Octant(position) = 0 -> Surd(Num(1))
      [] Octant(position) \in {1, 7} -> <<Num(0), Norm(1, 2)>>
      [] Octant(position) \in {2, 6} -> Surd(Num(0))
      [] Octant(position) \in {3, 5} -> <<Num(0), Norm(0 - 1, 2)>>
      [] Octant(position) = 4 -> Surd(Num(0 - 1))

\* Math.sin((position * Math.PI) / 180)
MathSin(position) ==
    CASE Octant(position) \in {0, 4} -> Surd(Num(0))
      [] Octant(position) \in {1, 3} -> <<Num(0), Norm(1, 2)>>
      [] Octant(position) = 2 -> Surd(Num(1))
      [] Octant(position) \in {5, 7} -> <<Num(0), Norm(0 - 1, 2)>>
      [] Octant(position) = 6 -> Surd(Num(0 - 1))

\* the largest k in lo..hi with k * k <= n
RECURSIVE ISqrt(_, _, _)
ISqrt(n, lo, hi) ==
    IF lo = hi THEN lo
    ELSE LET mid == (lo + hi + 1) \div 2
         IN  IF mid * mid <= n THEN ISqrt(n, mid, hi) ELSE ISqrt(n, lo, mid - 1)

\* Math.sqrt: the rational root when there is one, else <<n, d, 2>>, which
\* stands for the irrational square root of n / d
MathSqrt(q) ==
    IF IsNaN(q) \/ q[1] < 0 THEN NaN
    ELSE IF ~IsFinite(q) THEN Infinity
    ELSE LET rn == ISqrt(q[1], 0, IF q[1] < 46340 THEN q[1] ELSE 46340)
             rd == ISqrt(q[2], 0, IF q[2] < 46340 THEN q[2] ELSE 46340)
         IN  IF rn * rn = q[1] /\ rd * rd = q[2] THEN <<rn, rd>> ELSE <<q[1], q[2], 2>>

\* Math.atan(Math.sqrt(a * a + b * b)) * (180 / Math.PI): 0 when a and b are 0,
\* else <<a, b, 45>>, which stands for the positive angle whose tangent is
\* sqrt(a^2 + b^2)
AtanHypotDegrees(a, b) ==
    IF a = Surd(Num(0)) /\ b = Surd(Num(0)) THEN Num(0) ELSE <<a, b, 45>>

NewPoint(i, position) ==
    [id |-> i, position |-> position, previousElevation |-> Num(100),
     currentElevation |-> Num(100), settlement |-> Num(0)]

\* the points initializeElevationPoints(numPoints) sets
InitialPoints(numPoints) ==
    [k \in 1..numPoints |-> NewPoint(k - 1, RMul(Num(k - 1), Norm(360, numPoints)))]

\* useState's initial formData after the effect that initialises the points
SettlementInitialData ==
    [numberOfPoints |-> 8, elevationPoints |-> InitialPoints(8),
     maxSettlement |-> Num(0), minSettlement |-> Num(0),
     differentialSettlement |-> Num(0), tiltPercentage |-> Num(0),
     planarTilt |-> Num(0), uniformSettlement |-> Num(0),
     outOfPlaneSettlement |-> Num(0)]

\* surveys the server holds for a report, as the form saved them: in one, two
\* points are left of the default eight, the second re-surveyed at 99.9; in
\* the other, the points at 0, 90 and 180 degrees are left, each re-surveyed
\* at 99.9
ExistingSurveys ==
    {[SettlementInitialData EXCEPT
         !.elevationPoints =
             <<NewPoint(0, Num(0)),
               [NewPoint(1, Num(45)) EXCEPT !.currentElevation = Norm(999, 10),
                                            !.settlement = Norm(1, 10)]>>],
     [SettlementInitialData EXCEPT
         !.elevationPoints =
             [k \in 1..3 |->
                 [NewPoint(2 * (k - 1), Num(90 * (k - 1))) EXCEPT
                     !.currentElevation = Norm(999, 10),
                     !.settlement = Norm(1, 10)]]]}

\* the sums of points.forEach in calculatePlanarTilt after the first n points
RECURSIVE PlaneSums(_, _)
PlaneSums(points, n) ==
    IF n = 0
    THEN [sumX |-> Surd(Num(0)), sumY |-> Surd(Num(0)), sumZ |-> Surd(Num(0)),
          sumXX |-> Surd(Num(0)), sumYY |-> Surd(Num(0)), sumXY |-> Surd(Num(0)),
          sumXZ |-> Surd(Num(0)), sumYZ |-> Surd(Num(0))]
    ELSE LET t == PlaneSums(points, n - 1)
             x == MathCos(points[n].position)
             y == MathSin(points[n].position)
             z == Surd(points[n].settlement)
         IN  [sumX |-> SAdd(t.sumX, x), sumY |-> SAdd(t.sumY, y), sumZ |-> SAdd(t.sumZ, z),
              sumXX |-> SAdd(t.sumXX, SMul(x, x)), sumYY |-> SAdd(t.sumYY, SMul(y, y)),
              sumXY |-> SAdd(t.sumXY, SMul(x, y)),
              sumXZ |-> SAdd(t.sumXZ, SMul(x, z)), sumYZ |-> SAdd(t.sumYZ, SMul(y, z))]

\* the denominator of the plane coefficients
PlaneDenominator(n, t) ==
    SAdd(SSub(SMul(n, SSub(SMul(t.sumXX, t.sumYY), SMul(t.sumXY, t.sumXY))),
              SMul(t.sumX, SSub(SMul(t.sumX, t.sumYY), SMul(t.sumY, t.sumXY)))),
         SMul(t.sumY, SSub(SMul(t.sumX, t.sumXY), SMul(t.sumY, t.sumXX))))

\* the numerator of the plane coefficient a
PlaneNumeratorA(n, t) ==
    SAdd(SSub(SMul(t.sumXZ, SSub(SMul(n, t.sumYY), SMul(t.sumY, t.sumY))),
              SMul(t.sumYZ, SSub(SMul(n, t.sumXY), SMul(t.sumX, t.sumY)))),
         SMul(t.sumZ, SSub(SMul(t.sumX, t.sumY), SMul(t.sumY, t.sumXY))))

\* the numerator of the plane coefficient b
PlaneNumeratorB(n, t) ==
    SAdd(SSub(SMul(t.sumYZ, SSub(SMul(n, t.sumXX), SMul(t.sumX, t.sumX))),
              SMul(t.sumXZ, SSub(SMul(n, t.sumXY), SMul(t.sumX, t.sumY)))),
         SMul(t.sumZ, SSub(SMul(t.sumX, t.sumY), SMul(t.sumX, t.sumXY))))

calculatePlanarTilt(points) ==
    IF Len(points) < 3 THEN Num(0)
    ELSE LET n == Surd(Num(Len(points)))
             t == PlaneSums(points, Len(points))
             denominator == PlaneDenominator(n, t)
         IN  IF denominator = Surd(Num(0)) THEN Num(0)
             ELSE LET a == SDiv(PlaneNumeratorA(n, t), denominator)
                      b == SDiv(PlaneNumeratorB(n, t), denominator)
                  IN  AtanHypotDegrees(a, b)

\* settlements.reduce((a, b) => a + b, 0) over the first n points
RECURSIVE SumSettlements(_, _)
SumSettlements(points, n) ==
    IF n = 0 THEN Num(0) ELSE RAdd(SumSettlements(points, n - 1), points[n].settlement)

\* the largest magnitude of a settlement over the first n >= 1 points
RECURSIVE MaxOfSettlementsAbs(_, _)
MaxOfSettlementsAbs(points, n) ==
    IF n = 1 THEN MathAbs(points[1].settlement)
    ELSE MathMax(MaxOfSettlementsAbs(points, n - 1), MathAbs(points[n].settlement))

\* Math.max(...settlements) over the first n >= 1 points
RECURSIVE MaxOfSettlements(_, _)
MaxOfSettlements(points, n) ==
    IF n = 1 THEN points[1].settlement
    ELSE MathMax(MaxOfSettlements(points, n - 1), points[n].settlement)

\* Math.min(...settlements) over the first n >= 1 points
RECURSIVE MinOfSettlements(_, _)
MinOfSettlements(points, n) ==
    IF n = 1 THEN points[1].settlement
    ELSE MathMin(MinOfSettlements(points, n - 1), points[n].settlement)

\* the sum of (s - mean)^2 over the first n points
RECURSIVE SumSquares(_, _, _)
SumSquares(points, mean, n) ==
    IF n = 0 THEN Num(0)
    ELSE LET dev == RSub(points[n].settlement, mean)
         IN  RAdd(SumSquares(points, mean, n - 1), RMul(dev, dev))

calculateOutOfPlaneSettlement(points, planarTilt) ==
    LET mean == RDiv(SumSettlements(points, Len(points)), Num(Len(points)))
        variance == RDiv(SumSquares(points, mean, Len(points)), Num(Len(points)))
    IN  MathSqrt(variance)

\* the tank diameter calculateSettlementMetrics divides by
SettlementTankDiameter == Num(100)

\* the locals of calculateSettlementMetrics on a list of points that is not empty
SettlementLocals(points) ==
    LET maxSettlement == MaxOfSettlements(points, Len(points))
        minSettlement == MinOfSettlements(points, Len(points))
        differentialSettlement == RSub(maxSettlement, minSettlement)
        uniformSettlement == RDiv(SumSettlements(points, Len(points)), Num(Len(points)))
        tiltPercentage == RMul(RDiv(differentialSettlement, SettlementTankDiameter),
                               Num(100))
        planarTilt == calculatePlanarTilt(points)
    IN  [points |-> points,
         maxSettlement |-> maxSettlement, minSettlement |-> minSettlement,
         differentialSettlement |-> differentialSettlement,
         tiltPercentage |-> tiltPercentage, planarTilt |-> planarTilt,
         uniformSettlement |-> uniformSettlement,
         outOfPlaneSettlement |-> calculateOutOfPlaneSettlement(points, planarTilt)]

\* formData after the setFormData of calculateSettlementMetrics
SettlementWritten(data, l) ==
    [data EXCEPT
        !.maxSettlement = l.maxSettlement,
        !.minSettlement = l.minSettlement,
        !.differentialSettlement = l.differentialSettlement,
        !.tiltPercentage = l.tiltPercentage,
        !.planarTilt = l.planarTilt,
        !.uniformSettlement = l.uniformSettlement,
        !.outOfPlaneSettlement = l.outOfPlaneSettlement]

calculateSettlementMetrics ==
    /\ activeTab = "settlement-survey"
    /\ IF Len(settlement.elevationPoints) = 0
       THEN UNCHANGED <<settlement, calc, toast>>
       ELSE /\ calc' = [op |-> "calculateSettlementMetrics"]
                          @@ SettlementLocals(settlement.elevationPoints)
            /\ settlement' = SettlementWritten(settlement, calc')
            /\ toast' = "Calculations Complete"
    /\ UNCHANGED <<activeTab, edits, reportData, shellForm, roofForm, floorForm,
                   nozzleForm, cmlRecords>>
    /\ UNCHANGED serverVars

\* the API 653 Limit (1%) line of the results panel
Api653Limit(tiltPercentage) == IF RLe(tiltPercentage, Num(1)) THEN "PASS" ELSE "FAIL"

\* the settlement against the default previous elevation
PointSettlementFromDefault(point) == RSub(Num(100), point.currentElevation)

\* the settlement with the sign of upward movement
PointSettlementUpward(point) == RSub(point.currentElevation, point.previousElevation)

\* the settlement updateElevationPoint stores for a point
PointSettlement(point) == RSub(point.previousElevation, point.currentElevation)

updateElevationPoint(index, field, value) ==
    /\ activeTab = "settlement-survey"
    /\ edits < MaxEdits
    /\ edits' = edits + 1
    /\ LET updated == [settlement.elevationPoints[index] EXCEPT ![field] = value]
       IN  settlement' =
              [settlement EXCEPT
                  !.elevationPoints[index] =
                      IF field \in {"previousElevation", "currentElevation"}
                      THEN [updated EXCEPT !.settlement = PointSettlement(updated)]
                      ELSE updated]
    /\ UNCHANGED <<activeTab, reportData, shellForm, roofForm, floorForm, nozzleForm,
                   cmlRecords, calc, toast>>
    /\ UNCHANGED serverVars

\* addCustomPoint clearing the differential settlement of the survey it changes
addCustomPointClearing ==
    /\ activeTab = "settlement-survey"
    /\ edits < MaxEdits
    /\ edits' = edits + 1
    /\ settlement' = [settlement EXCEPT
                         !.elevationPoints = Append(@, NewPoint(Len(@), Num(0))),
                         !.differentialSettlement = Num(0)]
    /\ UNCHANGED <<activeTab, reportData, shellForm, roofForm, floorForm, nozzleForm,
                   cmlRecords, calc, toast>>
    /\ UNCHANGED serverVars

addCustomPoint ==
    /\ activeTab = "settlement-survey"
    /\ edits < MaxEdits
    /\ edits' = edits + 1
    /\ settlement' = [settlement EXCEPT
                         !.elevationPoints = Append(@, NewPoint(Len(@), Num(0)))]
    /\ UNCHANGED <<activeTab, reportData, shellForm, roofForm, floorForm, nozzleForm,
                   cmlRecords, calc, toast>>
    /\ UNCHANGED serverVars

removePoint(index) ==
    /\ activeTab = "settlement-survey"
    /\ edits < MaxEdits
    /\ edits' = edits + 1
    /\ settlement' = [settlement EXCEPT !.elevationPoints = RemoveAt(@, index)]
    /\ UNCHANGED <<activeTab, reportData, shellForm, roofForm, floorForm,
                   nozzleForm, cmlRecords, calc, toast>>
    /\ UNCHANGED serverVars

\* the effect on existingData: the query answers with a saved survey, before
\* the user has touched the form
LoadExistingData(existingData) ==
    /\ activeTab = "settlement-survey"
    /\ settlement = SettlementInitialData
    /\ settlement' = existingData
    /\ UNCHANGED <<activeTab, edits, reportData, shellForm, roofForm, floorForm,
                   nozzleForm, cmlRecords, calc, toast>>
    /\ UNCHANGED serverVars

\* onValueChange of the number-of-points Select
SelectNumberOfPoints(num) ==
    /\ activeTab = "settlement-survey"
    /\ edits < MaxEdits
    /\ edits' = edits + 1
    /\ settlement' = [settlement EXCEPT !.numberOfPoints = num,
                                        !.elevationPoints = InitialPoints(num)]
    /\ UNCHANGED <<activeTab, reportData, shellForm, roofForm, floorForm, nozzleForm,
                   cmlRecords, calc, toast>>
    /\ UNCHANGED serverVars

SettlementNext ==
    \/ calculateSettlementMetrics
    \/ addCustomPoint
    \/ \E existingData \in ExistingSurveys : LoadExistingData(existingData)
    \/ \E num \in NumberOfPointsInputs : SelectNumberOfPoints(num)
    \/ \E index \in DOMAIN settlement.elevationPoints \cap EditedPoints :
          \/ removePoint(index)
          \/ \E text \in PositionInputs :
                 updateElevationPoint(index, "position", OrZero(parseFloat(text)))
          \/ \E field \in {"previousElevation", "currentElevation"}, text \in ElevationInputs :
                 updateElevationPoint(index, field, OrZero(parseFloat(text)))

----------------------------------------------------------------------------
(* The server: the settlement survey and nozzle CML routes of registerRoutes,
   which keep their data in the customFields of a report *)

\* A JSON value is a record.  Null is JSON null, and also a field that
\* customFields does not have.
Null == [null |-> TRUE]

\* the ids of the reports in the table, and the ids a request may name
ReportIds == {"report-1"}

RequestReportIds == {"report-1", "report-2"}

\* what a request body carries besides its reportId
Payloads == {"data A", "data B"}

Routes ==
    {"GET /api/settlement-survey/:reportId", "POST /api/settlement-survey",
     "PATCH /api/settlement-survey/:id", "GET /api/nozzle-cml/:reportId",
     "POST /api/nozzle-cml", "PATCH /api/nozzle-cml/:id"}

\* a request: its route, whether it comes with the session of a signed-in
\* user, the report it names (in the path or in the body) and its payload
Requests ==
    [route : Routes, authenticated : BOOLEAN, reportId : RequestReportIds,
     payload : Payloads]

\* the reports table when the server starts
StoredReports ==
    [id \in ReportIds |->
        [customFields |-> [shellCalculations |-> Null, roofCalculations |-> Null,
                           floorMRTCalculations |-> Null, tankHistory |-> Null,
                           settlementSurvey |-> Null, nozzleCML |-> Null]]]

NoExchange == [request |-> Null, status |-> 0, body |-> Null]

\* storage.getReport(id): the row, or Null for undefined
getReport(id) == IF id \in DOMAIN reports THEN reports[id] ELSE Null

\* the isAuthenticated middleware lets the request of a signed-in user pass
\* and answers any other with 401
isAuthenticated(request) == request.authenticated

Unauthorized(request) ==
    /\ exchange' = [request |-> request, status |-> 401, body |-> [message |-> "Unauthorized"]]
    /\ UNCHANGED reports

\* res.json(report?.customFields?.[field] || null)
ReadCustomField(request, field) ==
    /\ exchange' = [request |-> request, status |-> 200,
                    body |-> IF getReport(request.reportId) = Null THEN Null
                             ELSE getReport(request.reportId).customFields[field]]
    /\ UNCHANGED reports

\* storage.updateReport(reportId, {customFields: {...customFields, [field]:
\* req.body}}) and res.json(req.body), or 404 when the report is not found
WriteCustomField(request, field) ==
    IF getReport(request.reportId) = Null
    THEN /\ exchange' = [request |-> request, status |-> 404,
                         body |-> [error |-> "Report not found"]]
         /\ UNCHANGED reports
    ELSE /\ reports' = [reports EXCEPT
                           ![request.reportId].customFields[field] =
                               [reportId |-> request.reportId, payload |-> request.payload]]
         /\ exchange' = [request |-> request, status |-> 200,
                         body |-> [reportId |-> request.reportId,
                                   payload |-> request.payload]]

\* app.get("/api/settlement-survey/:reportId", isAuthenticated, ...)
GetSettlementSurvey(request) ==
    /\ request.route = "GET /api/settlement-survey/:reportId"
    /\ IF isAuthenticated(request) THEN ReadCustomField(request, "settlementSurvey")
       ELSE Unauthorized(request)
    /\ UNCHANGED <<browserVars, saves>>

\* app.post("/api/settlement-survey", isAuthenticated, ...)
PostSettlementSurvey(request) ==
    /\ request.route = "POST /api/settlement-survey"
    /\ IF isAuthenticated(request) THEN WriteCustomField(request, "settlementSurvey")
       ELSE Unauthorized(request)
    /\ UNCHANGED <<browserVars, saves>>

\* app.patch("/api/settlement-survey/:id", ...)
PatchSettlementSurvey(request) ==
    /\ request.route = "PATCH /api/settlement-survey/:id"
    /\ WriteCustomField(request, "settlementSurvey")
    /\ UNCHANGED <<browserVars, saves>>

\* app.get("/api/nozzle-cml/:reportId", ...)
GetNozzleCml(request) ==
    /\ request.route = "GET /api/nozzle-cml/:reportId"
    /\ ReadCustomField(request, "nozzleCML")
    /\ UNCHANGED <<browserVars, saves>>

\* app.post("/api/nozzle-cml", ...)
PostNozzleCml(request) ==
    /\ request.route = "POST /api/nozzle-cml"
    /\ WriteCustomField(request, "nozzleCML")
    /\ UNCHANGED <<browserVars, saves>>

\* app.patch("/api/nozzle-cml/:id", ...)
PatchNozzleCml(request) ==
    /\ request.route = "PATCH /api/nozzle-cml/:id"
    /\ WriteCustomField(request, "nozzleCML")
    /\ UNCHANGED <<browserVars, saves>>

\* The save handlers of the sections of a report, and the customFields key
\* each of them writes.  A handler awaits storage.getReport and then
\* storage.updateReport, and other handlers run in between.
SaveRoutes ==
    [shellCalculations |-> "PUT /api/reports/:reportId/shell-calculations",
     roofCalculations |-> "PUT /api/reports/:reportId/roof-calculations",
     floorMRTCalculations |-> "PUT /api/reports/:reportId/floor-mrt-calculations",
     tankHistory |-> "PUT /api/reports/:reportId/tank-history",
     settlementSurvey |-> "POST /api/settlement-survey",
     nozzleCML |-> "PATCH /api/nozzle-cml/:id"]

\* no save has been requested
NoSaves == [field \in DOMAIN SaveRoutes |-> [pc |-> "idle", report |-> Null, body |-> Null]]

\* the handler of a save of a signed-in user up to the answer of
\* storage.getReport: it holds the row it has read
BeginSave(field, reportId, payload) ==
    /\ saves[field].pc = "idle"
    /\ getReport(reportId) # Null
    /\ saves' = [saves EXCEPT ![field] = [pc |-> "read", report |-> getReport(reportId),
                                           body |-> [reportId |-> reportId,
                                                     payload |-> payload]]]
    /\ UNCHANGED <<reports, exchange, browserVars>>

\* the rest of the handler: storage.updateReport(reportId, {customFields:
\* {...report.customFields, [field]: req.body}}) and res.json(req.body)
CompleteSave(field) ==
    /\ saves[field].pc = "read"
    /\ reports' = [reports EXCEPT
                       ![saves[field].body.reportId].customFields =
                           [saves[field].report.customFields EXCEPT
                               ![field] = saves[field].body]]
    /\ exchange' = [request |-> [route |-> SaveRoutes[field], authenticated |-> TRUE,
                                  reportId |-> saves[field].body.reportId,
                                  payload |-> saves[field].body.payload],
                    status |-> 200, body |-> saves[field].body]
    /\ saves' = [saves EXCEPT ![field] = [pc |-> "done", report |-> Null,
                                           body |-> saves[field].body]]
    /\ UNCHANGED browserVars

\* the server answers a request
Serve(request) ==
    \/ GetSettlementSurvey(request)
    \/ PostSettlementSurvey(request)
    \/ PatchSettlementSurvey(request)
    \/ GetNozzleCml(request)
    \/ PostNozzleCml(request)
    \/ PatchNozzleCml(request)

----------------------------------------------------------------------------
(* The application *)

\* TabType of the navigation sidebar
Tabs ==
    {"base-data", "tank-history", "appendices", "component-cml", "nozzle-cml",
     "shell-calculations", "roof-calculations", "floor-calculations",
     "settlement-survey", "shell-inspection", "bottom-inspection", "calculations",
     "writeup"}

Init ==
    /\ activeTab = "base-data"
    /\ edits = 0
    /\ reportData = NoReport
    /\ shellForm = ShellDefaultValues
    /\ roofForm = RoofDefaultValues
    /\ floorForm = FloorDefaultValues
    /\ nozzleForm \in {NozzleInitialData(today) : today \in Todays}
    /\ settlement = SettlementInitialData
    /\ cmlRecords = <<>>
    /\ calc = [op |-> "none"]
    /\ toast = "none"
    /\ reports = StoredReports
    /\ exchange = NoExchange
    /\ saves = NoSaves

\* a click in the navigation sidebar: the form of the section left is
\* unmounted and the form of the section entered is constructed
onTabChange(tab) ==
    /\ tab # activeTab
    /\ edits < MaxEdits
    /\ edits' = edits + 1
    /\ activeTab' = tab
    /\ shellForm' = ShellDefaultValues
    /\ roofForm' = RoofDefaultValues
    /\ floorForm' = FloorDefaultValues
    /\ nozzleForm' \in {NozzleInitialData(today) : today \in Todays}
    /\ settlement' = SettlementInitialData
    /\ calc' = [op |-> "none"]
    /\ UNCHANGED <<reportData, cmlRecords, toast>>
    /\ UNCHANGED serverVars

\* the report query resolves
LoadReportData(report) ==
    /\ activeTab \in {"shell-calculations", "component-cml"}
    /\ reportData = NoReport
    /\ reportData' = report
    /\ UNCHANGED <<activeTab, edits, shellForm, roofForm, floorForm, nozzleForm,
                   settlement, cmlRecords, calc, toast>>
    /\ UNCHANGED serverVars

Next ==
    \/ \E tab \in Tabs : onTabChange(tab)
    \/ \E report \in Reports : LoadReportData(report)
    \/ ShellNext
    \/ RoofNext
    \/ FloorNext
    \/ CmlNext
    \/ CalculationsForm
    \/ NozzleNext
    \/ SettlementNext

Spec == Init /\ [][Next]_vars

\* the calculations summary of a report with CML records on the server
StatisticsInit ==
    /\ activeTab = "calculations"
    /\ edits = 0
    /\ reportData = NoReport
    /\ shellForm = ShellDefaultValues
    /\ roofForm = RoofDefaultValues
    /\ floorForm = FloorDefaultValues
    /\ nozzleForm \in {NozzleInitialData(today) : today \in Todays}
    /\ settlement = SettlementInitialData
    /\ cmlRecords \in ServerCmlRecords
    /\ calc = [op |-> "none"]
    /\ toast = "none"
    /\ reports = StoredReports
    /\ exchange = NoExchange
    /\ saves = NoSaves

StatisticsNext == CalculationsForm

StatisticsSpec == StatisticsInit /\ [][StatisticsNext]_vars

\* the component CML form of a report for which the form has created two
\* records before
CmlInit ==
    /\ activeTab = "component-cml"
    /\ edits = 0
    /\ reportData = NoReport
    /\ shellForm = ShellDefaultValues
    /\ roofForm = RoofDefaultValues
    /\ floorForm = FloorDefaultValues
    /\ nozzleForm \in {NozzleInitialData(today) : today \in Todays}
    /\ settlement = SettlementInitialData
    /\ cmlRecords = <<NewCmlRecord(1, "Shell", "North"), NewCmlRecord(2, "Shell", "North")>>
    /\ calc = [op |-> "none"]
    /\ toast = "none"
    /\ reports = StoredReports
    /\ exchange = NoExchange
    /\ saves = NoSaves

CmlSpec == CmlInit /\ [][CmlNext]_vars

\* the server under requests of clients, signed in or not
ServerNext == \E request \in Requests : Serve(request)

ServerSpec == Init /\ [][ServerNext]_vars

\* the server under saves of the sections of one report that overlap
ConcurrentNext ==
    \/ \E field \in DOMAIN SaveRoutes, reportId \in ReportIds :
           BeginSave(field, reportId, "data A")
    \/ \E field \in DOMAIN SaveRoutes : CompleteSave(field)

ConcurrentSpec == Init /\ [][ConcurrentNext]_vars

----------------------------------------------------------------------------
(* Claims *)

ShellRan == calc.op = "calculateShell"

\* the parameters of the audit, as the bottom course of a calculateShell run
IsAuditCourse(l) ==
    /\ l.fillHeight = Num(40) /\ l.tankDiameter = Num(120)
    /\ l.specificGravity = Num(1) /\ l.jointEfficiency = Norm(85, 100)
    /\ l.stressValue = Num(26700) /\ l.originalThickness = Norm(500, 1000)
    /\ l.actualThickness = Norm(485, 1000) /\ l.age = Num(10)

\* (P x R) / (S x E - 0.6 x P) for the inputs of a run
Api653Thickness(l) ==
    LET P == RMul(RMul(Norm(433, 1000), l.specificGravity), l.H)
        R == RMul(l.tankDiameter, Num(6))
    IN  RDiv(RMul(P, R),
             RSub(RMul(l.stressValue, l.jointEfficiency), RMul(Norm(6, 10), P)))

\* C1: for the audit parameters the bottom course of the shell form gets a
\* minimum thickness within 0.01 in of 0.650 in and a corrosion rate within
\* 0.1 of 1.5 mpy, the minimum thickness being the API 653 required thickness
\* plus a 0.100 in corrosion allowance.
C1_AuditMinimumThickness ==
    (ShellRan /\ IsAuditCourse(calc.courses[1])) =>
        LET l == calc.courses[1]
        IN  /\ RLt(MathAbs(RSub(parseFloat(l.written.tMin), Norm(650, 1000))),
                   Norm(1, 100))
            /\ RLt(MathAbs(RSub(l.corrosionRate, Norm(15, 10))), Norm(1, 10))
            /\ l.tMin = RAdd(Api653Thickness(l), Norm(100, 1000))

\* the parameters the shell form used for a course, as the test script takes them
AsTestParams(l) ==
    [fillHeight |-> l.fillHeight, specificGravity |-> l.specificGravity,
     jointEfficiency |-> l.jointEfficiency, tankDiameter |-> l.tankDiameter,
     courseHeight |-> l.courseHeight, stressValue |-> l.stressValue,
     originalThickness |-> l.originalThickness, actualThickness |-> l.actualThickness,
     age |-> l.age]

\* C2: the shell form and the test script apply the same corrosion-allowance
\* convention: for the bottom course the form's unrounded minimum thickness
\* equals the minimum thickness the script computes from the same parameters.
C2_OneAllowanceConvention ==
    ShellRan =>
        calc.courses[1].tMin = TestCalculateShell(AsTestParams(calc.courses[1])).tMin

\* C5: the remaining life calculateShell writes for a course is an integer in
\* 0..999: 999 when the corrosion rate is <= 0, 0 when the actual thickness is
\* at or below the rounded minimum thickness with a positive rate, and
\* otherwise round((actual - t_min) / (rate / 1000)) capped at 999.
C5_ShellRemainingLife ==
    ShellRan =>
        \A i \in DOMAIN calc.courses :
            LET l == calc.courses[i]
                tMin == parseFloat(l.written.tMin)
                rl == parseFloat(l.written.remainingLife)
                years == RDiv(RSub(l.actualThickness, tMin),
                              RDiv(l.corrosionRate, Num(1000)))
            IN  /\ rl[2] = 1 /\ rl[1] \in 0..999
                /\ RLe(l.corrosionRate, Num(0)) => rl = Num(999)
                /\ (RGt(l.corrosionRate, Num(0)) /\ RLe(l.actualThickness, tMin))
                       => rl = Num(0)
                /\ (RGt(l.corrosionRate, Num(0)) /\ RGt(l.actualThickness, tMin))
                       => rl = MathMin(Num(999), MathRound(years))

\* a run with a course already at or below its minimum thickness (life 0) and a
\* course with a life between 0 and 999 years
C5_Witness ==
    /\ ShellRan
    /\ \E i \in DOMAIN calc.courses :
           /\ RGt(calc.courses[i].corrosionRate, Num(0))
           /\ RLe(calc.courses[i].actualThickness, calc.courses[i].tMinRounded)
           /\ calc.courses[i].written.remainingLife = Txt(0, 0)
    /\ \E i \in DOMAIN calc.courses :
           /\ RGt(calc.courses[i].corrosionRate, Num(0))
           /\ RGt(calc.courses[i].remainingLife, Num(0))
           /\ RLt(calc.courses[i].remainingLife, Num(999))
           /\ calc.courses[i].written.remainingLife
                  = toString(MathRound(calc.courses[i].remainingLife))

\* the geometry of a course is invalid
InvalidGeometry(l) ==
    \/ RLe(l.tankDiameter, Num(0))
    \/ RLe(l.courseHeight, Num(0))
    \/ RLe(l.stressValue, Num(0))
    \/ RLe(l.jointEfficiency, Num(0))
    \/ RLe(RSub(RMul(l.stressValue, l.jointEfficiency), RMul(Norm(6, 10), l.P)), Num(0))

\* C7: for a course of invalid geometry calculateShell reports a validation
\* failure, which differs from the report of a result, and writes no minimum
\* thickness.
C7_InvalidGeometryRejected ==
    ShellRan =>
        \A i \in DOMAIN calc.courses :
            InvalidGeometry(calc.courses[i]) =>
                /\ toast # "Calculations Complete"
                /\ ~IsNumeral(calc.courses[i].written.tMin)

RECURSIVE HeightBelow(_, _)
HeightBelow(courses, n) ==
    IF n = 0 THEN Num(0) ELSE RAdd(HeightBelow(courses, n - 1), courses[n].courseHeight)

\* C9: the course at index i gets the liquid head max(0, fill height - the
\* heights of the courses below it): the bottom course gets the fill height, H
\* does not increase with the index, and a course at or above the liquid level
\* gets H = 0 and pressure 0.
C9_LiquidHead ==
    ShellRan =>
        \A i \in DOMAIN calc.courses :
            LET l == calc.courses[i]
                below == HeightBelow(calc.courses, i - 1)
            IN  /\ l.H = MathMax(Num(0), RSub(l.fillHeight, below))
                /\ i = 1 => l.H = l.fillHeight
                /\ i > 1 => RLe(l.H, calc.courses[i - 1].H)
                /\ RLe(l.fillHeight, below) => (l.H = Num(0) /\ l.P = Num(0))

\* the corrosion rate of the specification for a plate
IsSpecifiedRate(original, actual, age, rate) ==
    /\ IsFinite(rate)
    /\ RGt(age, Num(0)) => rate = RMul(RDiv(RSub(original, actual), age), Num(1000))
    /\ RLe(age, Num(0)) => rate = Num(0)

\* C3: in calculateShell, calculateRoof, the per-scan rate of calculateFloorMRT
\* and calculateCorrosionRate the corrosion rate is ((original - actual) / age)
\* x 1000 when age > 0, negative when the actual thickness exceeds the original
\* one, and 0 when age <= 0; the computation yields a number for every input.
C3_CorrosionRate ==
    /\ calc.op = "calculateShell" =>
          \A i \in DOMAIN calc.courses :
              LET l == calc.courses[i]
              IN  /\ IsSpecifiedRate(l.originalThickness, l.actualThickness, l.age,
                                     l.corrosionRate)
                  /\ parseFloat(l.written.corrosionRate) = Round2(l.corrosionRate)
    /\ calc.op = "calculateRoof" =>
          /\ IsSpecifiedRate(calc.deckPlateThickness, calc.deckPlateActual, calc.roofAge,
                             calc.corrosionRateDeck)
          /\ IsSpecifiedRate(calc.roofPlateThickness, calc.roofPlateActual, calc.roofAge,
                             calc.corrosionRateRoof)
    /\ calc.op = "calculateFloorMRT" =>
          \A i \in DOMAIN calc.scans :
              IsSpecifiedRate(calc.originalThickness, calc.scans[i].thickness, calc.age,
                              calc.scans[i].corrosionRate)
    /\ calc.op = "calculateCorrosionRate" =>
          IsSpecifiedRate(calc.params.originalThickness, calc.params.currentThickness,
                          calc.params.serviceYears, calc.result.corrosionRate)

\* a shell run with a course whose actual thickness exceeds the original one
C3_Witness ==
    /\ ShellRan
    /\ \E i \in DOMAIN calc.courses :
           /\ RGt(calc.courses[i].age, Num(0))
           /\ RGt(calc.courses[i].actualThickness, calc.courses[i].originalThickness)
           /\ RLt(calc.courses[i].corrosionRate, Num(0))
           /\ RLt(parseFloat(calc.courses[i].written.corrosionRate), Num(0))

\* C4: a corrosion rate of 0 gives the unbounded sentinel as remaining life,
\* never 0, also for a plate at or below its minimum thickness: 999 in the
\* shell, roof, floor and nozzle calculators; calculateCorrosionRate returns
\* Infinity exactly when the rate is <= 0 and else a finite value >= 0.
C4_UnboundedSentinel ==
    /\ calc.op = "calculateShell" =>
          \A i \in DOMAIN calc.courses :
              calc.courses[i].corrosionRate = Num(0)
                  => calc.courses[i].written.remainingLife = Txt(999, 0)
    /\ calc.op = "calculateRoof" =>
          /\ calc.corrosionRateDeck = Num(0)
                => calc.written.remainingLifeDeck = Txt(999, 0)
          /\ calc.corrosionRateRoof = Num(0)
                => calc.written.remainingLifeRoof = Txt(999, 0)
    /\ calc.op = "calculateFloorMRT" =>
          /\ \A i \in DOMAIN calc.scans :
                 calc.scans[i].corrosionRate = Num(0)
                     => calc.scans[i].written.remainingLife = Txt(999, 0)
          /\ (calc.scans # <<>> /\ calc.avgCorrosionRate = Num(0))
                => calc.written.averageRemainingLife = Txt(999, 0)
          /\ (calc.scans # <<>> /\ calc.maxCorrosionRate = Num(0))
                => calc.written.minimumRemainingLife = Txt(999, 0)
    /\ calc.op = "calculateNozzleMetrics" =>
          \A i \in DOMAIN calc.records :
              calc.records[i].corrosionRate = Num(0)
                  => calc.records[i].written.remainingLife = Num(999)
    /\ calc.op = "calculateCorrosionRate" =>
          /\ calc.result.remainingLife = Infinity
                <=> RLe(calc.result.corrosionRate, Num(0))
          /\ RGt(calc.result.corrosionRate, Num(0))
                => /\ IsFinite(calc.result.remainingLife)
                   /\ RGe(calc.result.remainingLife, Num(0))

\* a shell run with a course of age 0 at or below its minimum thickness
C4_Witness ==
    /\ ShellRan
    /\ \E i \in DOMAIN calc.courses :
           /\ calc.courses[i].age = Num(0)
           /\ calc.courses[i].corrosionRate = Num(0)
           /\ RLe(calc.courses[i].actualThickness, calc.courses[i].tMinRounded)
           /\ calc.courses[i].written.remainingLife = Txt(999, 0)

\* t is the numeral of an integer in 0..999
IsLifeInRange(t) == IsNumeral(t) /\ t[2] = 0 /\ t[1] \in 0..999

\* C6: every remaining life calculateRoof and calculateFloorMRT write lies in
\* 0..999, and is 0 for a plate at or below its minimum thickness with a
\* positive corrosion rate.
C6_RoofFloorRemainingLife ==
    /\ calc.op = "calculateRoof" =>
          /\ IsLifeInRange(calc.written.remainingLifeDeck)
          /\ IsLifeInRange(calc.written.remainingLifeRoof)
          /\ (RGt(calc.corrosionRateDeck, Num(0)) /\ RLe(calc.deckPlateActual, calc.tMinDeck))
                => calc.written.remainingLifeDeck = Txt(0, 0)
          /\ (RGt(calc.corrosionRateRoof, Num(0)) /\ RLe(calc.roofPlateActual, calc.tMinRoof))
                => calc.written.remainingLifeRoof = Txt(0, 0)
    /\ (calc.op = "calculateFloorMRT" /\ calc.scans # <<>>) =>
          /\ IsLifeInRange(calc.written.averageRemainingLife)
          /\ IsLifeInRange(calc.written.minimumRemainingLife)
          /\ \A i \in DOMAIN calc.scans :
                /\ IsLifeInRange(calc.scans[i].written.remainingLife)
                /\ (RGt(calc.scans[i].corrosionRate, Num(0))
                      /\ RLe(calc.scans[i].thickness, calc.minimumThickness))
                      => calc.scans[i].written.remainingLife = Txt(0, 0)

\* no point of the list has moved
NoneMoved(points) ==
    \A i \in DOMAIN points : points[i].currentElevation = points[i].previousElevation

\* the form shows the metrics of its present list of points
MetricsCurrent ==
    /\ calc.op = "calculateSettlementMetrics"
    /\ settlement.elevationPoints = calc.points

\* C10: when every elevation point has its current elevation equal to its
\* previous one, after calculateSettlementMetrics the differential settlement,
\* the planar tilt and the tilt percentage are 0 and the API 653 limit line
\* shows PASS.
C10_NoMovementNoTilt ==
    (MetricsCurrent /\ NoneMoved(settlement.elevationPoints)) =>
        /\ settlement.differentialSettlement = Num(0)
        /\ settlement.planarTilt = Num(0)
        /\ settlement.tiltPercentage = Num(0)
        /\ Api653Limit(settlement.tiltPercentage) = "PASS"

\* metrics of a list of points with a plane fit, one of them re-surveyed at
\* equal elevations other than the default
C10_Witness ==
    /\ MetricsCurrent
    /\ NoneMoved(settlement.elevationPoints)
    /\ \E i \in DOMAIN settlement.elevationPoints :
           settlement.elevationPoints[i].previousElevation # Num(100)
    /\ Len(settlement.elevationPoints) >= 3
    /\ PlaneDenominator(Surd(Num(Len(settlement.elevationPoints))),
                        PlaneSums(settlement.elevationPoints,
                                  Len(settlement.elevationPoints))) # Surd(Num(0))

\* calculateSettlementMetrics ran on a list of points
SettlementRan == calc.op = "calculateSettlementMetrics"

\* the sum of the settlements of the first n points
RECURSIVE TotalSettlement(_, _)
TotalSettlement(points, n) ==
    IF n = 0 THEN Num(0) ELSE RAdd(TotalSettlement(points, n - 1), points[n].settlement)

IsAngle(v) == v = Num(0) \/ (Len(v) = 3 /\ v[3] = 45)

\* C12: with fewer than 3 elevation points the planar tilt is an explicit
\* undefined outcome, which a caller tells apart from a computed tilt of 0
\* degrees; it is not a number.
C12_FewPointsUndefined ==
    (SettlementRan /\ Len(calc.points) < 3) => ~IsAngle(settlement.planarTilt)

\* C13: the tilt percentage of calculateSettlementMetrics is (differential
\* settlement / tank diameter) x 100 with the diameter of the report, the value
\* calculateShell uses, so that it changes with the report's diameter.
C13_TiltUsesReportDiameter ==
    (SettlementRan /\ reportData # NoReport) =>
        settlement.tiltPercentage =
            RMul(RDiv(settlement.differentialSettlement, TankDiameter(reportData)),
                 Num(100))

StatisticsRan == calc.op = "calculateStatistics"

\* the exact sum of the first n rates
RECURSIVE TotalRates(_, _)
TotalRates(rates, n) == IF n = 0 THEN Num(0) ELSE RAdd(TotalRates(rates, n - 1), rates[n])

\* the rates the calculations summary hands to calculateStatistics
SummaryRates == CmlCorrosionRates(cmlRecords, Len(cmlRecords))

\* the original reading of C14: for every list of rates that is not empty the
\* returned percentile95 is at least the returned average
C14_PercentileAtLeastAverage ==
    (StatisticsRan /\ Len(calc.corrosionRates) >= 1) =>
        RGe(calc.result.percentile95, calc.result.average)

\* C14: for every list of rates that is not empty the returned percentile95 is
\* at most the returned maximum and at least the smallest rate rounded to 2
\* decimals; for a list of up to 20 rates it is the returned maximum itself.
\* (For a longer list it can lie below the average.)
C14_PercentileWithinRange ==
    (StatisticsRan /\ Len(calc.corrosionRates) >= 1) =>
        LET rates == calc.corrosionRates
            n == Len(rates)
        IN  /\ RLe(calc.result.percentile95, calc.result.maximum)
            /\ \A i \in 1..n :
                   (\A j \in 1..n : RLe(rates[i], rates[j]))
                   => RGe(calc.result.percentile95, NumberFixed2(F64(rates[i])))
            /\ n <= 20 => calc.result.percentile95 = calc.result.maximum

\* statistics of 20 rates that are not all the same
C14_Witness ==
    /\ StatisticsRan
    /\ Len(calc.corrosionRates) = 20
    /\ \E i, j \in 1..20 : RLt(calc.corrosionRates[i], calc.corrosionRates[j])
    /\ calc.result.percentile95 = calc.result.maximum
    /\ RGt(calc.result.maximum, calc.result.average)

\* C15: calculateStatistics returns zeros for an empty list; for n >= 1 rates it
\* returns the arithmetic mean, the largest rate and the element at index
\* min(floor(0.95 n), n - 1) of the ascending sort, each rounded to 2 decimals,
\* so that average <= maximum and percentile95 <= maximum; the list it was
\* given keeps its order.
C15_Statistics ==
    StatisticsRan =>
        LET rates == calc.corrosionRates
            n == Len(rates)
            near(r, x) == RLe(MathAbs(RSub(r, x)), Norm(5, 1000))
        IN  /\ rates = SummaryRates
            /\ n = 0 => calc.result = [average |-> Num(0), maximum |-> Num(0),
                                       percentile95 |-> Num(0)]
            /\ n >= 1 =>
                   /\ near(calc.result.average, RDiv(TotalRates(rates, n), Num(n)))
                   /\ \E i \in 1..n :
                          /\ \A j \in 1..n : RLe(rates[j], rates[i])
                          /\ near(calc.result.maximum, rates[i])
                   /\ \A i \in 1..(n - 1) : RLe(calc.sorted[i], calc.sorted[i + 1])
                   /\ Len(calc.sorted) = n
                   /\ \A i \in 1..n :
                          Cardinality({j \in 1..n : calc.sorted[j] = rates[i]})
                              = Cardinality({j \in 1..n : rates[j] = rates[i]})
                   /\ near(calc.result.percentile95,
                           calc.sorted[(IF (95 * n) \div 100 < n - 1
                                        THEN (95 * n) \div 100 ELSE n - 1) + 1])
                   /\ RLe(calc.result.average, calc.result.maximum)
                   /\ RLe(calc.result.percentile95, calc.result.maximum)

\* C16: each form calculator is idempotent on its form state: on the form that
\* calculateShell, calculateRoof, calculateFloorMRT, calculateNozzleMetrics or
\* calculateSettlementMetrics leaves, the same calculator run again with no
\* edit in between writes the form it finds.
C16_CalculatorsIdempotent ==
    [][/\ calculateShell =>
              ShellWritten(shellForm', ShellLocals(shellForm', reportData')) = shellForm'
       /\ calculateRoof => RoofWritten(roofForm', RoofLocals(roofForm')) = roofForm'
       /\ calculateFloorMRT =>
              \/ Len(floorForm'.scans) = 0
              \/ FloorWritten(floorForm', FloorLocals(floorForm')) = floorForm'
       /\ calculateNozzleMetrics =>
              \/ nozzleForm'.previousInspectionDate = Empty
              \/ nozzleForm'.inspectionDate = Empty
              \/ NozzleWritten(nozzleForm', NozzleLocals(nozzleForm')) = nozzleForm'
       /\ calculateSettlementMetrics =>
              \/ Len(settlement'.elevationPoints) = 0
              \/ SettlementWritten(settlement',
                                   SettlementLocals(settlement'.elevationPoints))
                     = settlement']_vars

\* a roof form that calculateRoof has written, with a deck minimum above 0.094
\* and a finite remaining life, which a second run would write again
C16_Witness ==
    /\ calc.op = "calculateRoof"
    /\ roofForm.tMinDeck = calc.written.tMinDeck
    /\ IsNumeral(roofForm.tMinDeck) /\ roofForm.tMinDeck # Txt(94, 3)
    /\ IsNumeral(roofForm.remainingLifeDeck) /\ roofForm.remainingLifeDeck # Txt(999, 0)
    /\ RoofWritten(roofForm, RoofLocals(roofForm)) = roofForm

\* C17: every API endpoint that reads or writes report data requires valid
\* authentication: a request of a client that is not signed in is answered
\* with 401 and neither reads nor changes the stored data of a report, the
\* settlement survey and the nozzle CML data in customFields included.
C17_AuthenticationRequired ==
    [][\A request \in Requests :
           (Serve(request) /\ ~request.authenticated)
           => (reports' = reports /\ exchange'.status = 401)]_vars

\* the slopes a and b with the intercept c = (sumZ - a sumX - b sumY) / n
\* satisfy the normal equations of the fit of z = a x + b y + c to the sums t
\* of n points (the third equation holds by the choice of c; the first two
\* are taken times n)
SatisfiesNormalEquations(a, b, n, t) ==
    LET nc == SSub(t.sumZ, SAdd(SMul(a, t.sumX), SMul(b, t.sumY)))
    IN  /\ SAdd(SMul(n, SAdd(SMul(a, t.sumXX), SMul(b, t.sumXY))), SMul(nc, t.sumX))
               = SMul(n, t.sumXZ)
        /\ SAdd(SMul(n, SAdd(SMul(a, t.sumXY), SMul(b, t.sumYY))), SMul(nc, t.sumY))
               = SMul(n, t.sumYZ)

\* C18: for 3 or more elevation points whose normal-equation determinant is
\* not 0, evenly spaced or not, the slopes a and b that calculatePlanarTilt
\* puts into atan(sqrt(a^2 + b^2)) satisfy the normal equations of the
\* least-squares plane z = a x + b y + c through the points (cos(position),
\* sin(position), settlement); when the determinant is 0 the tilt is 0.
C18_LeastSquaresSlopes ==
    (SettlementRan /\ Len(calc.points) >= 3) =>
        LET n == Surd(Num(Len(calc.points)))
            t == PlaneSums(calc.points, Len(calc.points))
            tilt == settlement.planarTilt
        IN  IF PlaneDenominator(n, t) = Surd(Num(0)) THEN tilt = Num(0)
            ELSE IF tilt = Num(0)
                 THEN SatisfiesNormalEquations(Surd(Num(0)), Surd(Num(0)), n, t)
                 ELSE SatisfiesNormalEquations(tilt[1], tilt[2], n, t)

\* C19: in every state of the settlement form reached from its default
\* initialisation by initializeElevationPoints, updateElevationPoint (on
\* position, previousElevation or currentElevation), addCustomPoint and
\* removePoint, every elevation point has settlement = previousElevation -
\* currentElevation.
C19_SettlementIsDifference ==
    \A i \in DOMAIN settlement.elevationPoints :
        LET point == settlement.elevationPoints[i]
        IN  point.settlement = RSub(point.previousElevation, point.currentElevation)

\* a list with a custom point added in which a point re-surveyed at another
\* previous elevation has settled
C19_Witness ==
    /\ Len(settlement.elevationPoints) = 9
    /\ \E i \in DOMAIN settlement.elevationPoints :
           /\ settlement.elevationPoints[i].previousElevation # Num(100)
           /\ settlement.elevationPoints[i].settlement # Num(0)
           /\ settlement.elevationPoints[i].settlement
                  = RSub(settlement.elevationPoints[i].previousElevation,
                         settlement.elevationPoints[i].currentElevation)

\* C20: calculateRoof always writes tMinRoof = 0.094 and a tMinDeck >= 0.094;
\* when supportedByRafters is not "yes", tMinDeck is exactly 0.094 whatever the
\* loads and the rafter spacing; when it is "yes", tMinDeck is the larger of
\* 0.094 and the 3-decimal rounding of
\* sqrt((liveLoad + snowLoad) * (rafterSpacing * 12)^2 / (30000 * 4.8)).
C20_RoofMinimums ==
    [][calculateRoof =>
          /\ roofForm'.tMinRoof = Txt(94, 3)
          /\ calc'.tMinRoof = Norm(94, 1000)
          /\ RGe(calc'.tMinDeck, Norm(94, 1000))
          /\ RGe(parseFloat(roofForm'.tMinDeck), Norm(94, 1000))
          /\ (roofForm.supportedByRafters # "yes" => calc'.tMinDeck = Norm(94, 1000))
          /\ (roofForm.supportedByRafters = "yes" =>
                 calc'.tMinDeck = MathMax(Norm(94, 1000),
                                          RDiv(RoundSqrt1000(
                                                   RDiv(RMul(RAdd(calc'.liveLoad, calc'.snowLoad),
                                                             RMul(RMul(calc'.rafterSpacing, Num(12)),
                                                                  RMul(calc'.rafterSpacing, Num(12)))),
                                                        Num(144000))),
                                               Num(1000))))]_vars

\* the thickness calculateFloorMRT reads from each scan
ScanThicknesses(values) ==
    [i \in DOMAIN values.scans |-> parseFloat(OrElse(values.scans[i].thickness, Txt(0, 0)))]

\* the sum of the first n numbers of a list
RECURSIVE SumOfFirst(_, _)
SumOfFirst(numbers, n) ==
    IF n = 0 THEN Num(0) ELSE RAdd(SumOfFirst(numbers, n - 1), numbers[n])

\* the smallest number of a list that is not empty
SmallestOf(numbers) ==
    CHOOSE x \in {numbers[i] : i \in DOMAIN numbers} :
        \A i \in DOMAIN numbers : RLe(x, numbers[i])

\* C21: with at least one scan, calculateFloorMRT writes averageThickness =
\* the arithmetic mean of the scan thicknesses and minimumRecorded = the
\* smallest scan thickness (so minimumRecorded <= averageThickness), and,
\* whenever original thickness > minimum required thickness and age > 0,
\* minimumRemainingLife <= averageRemainingLife.
C21_FloorAverageAndMinimum ==
    [][(calculateFloorMRT /\ Len(floorForm.scans) > 0) =>
          LET thicknesses == ScanThicknesses(floorForm)
              mean == RDiv(SumOfFirst(thicknesses, Len(thicknesses)),
                           Num(Len(thicknesses)))
          IN  /\ floorForm'.averageThickness = toFixed(mean, 3)
              /\ floorForm'.minimumRecorded = toFixed(SmallestOf(thicknesses), 3)
              /\ RLe(parseFloat(floorForm'.minimumRecorded),
                     parseFloat(floorForm'.averageThickness))
              /\ (RGt(calc'.originalThickness, calc'.minimumThickness)
                    /\ RGt(calc'.age, Num(0)))
                     => RLe(parseFloat(floorForm'.minimumRemainingLife),
                            parseFloat(floorForm'.averageRemainingLife))]_vars

\* the factor the table of calculateNozzleTmin lists for a schedule
ListedFactor(schedule) ==
    CASE schedule \in {"40", "STD"} -> Norm(95, 1000)
      [] schedule \in {"80", "XS"} -> Norm(125, 1000)
      [] schedule = "10" -> Norm(65, 1000)
      [] schedule = "20" -> Norm(75, 1000)
      [] schedule = "30" -> Norm(85, 1000)
      [] schedule = "60" -> Norm(110, 1000)
      [] schedule = "120" -> Norm(150, 1000)
      [] schedule = "160" -> Norm(175, 1000)
      [] schedule = "XXS" -> Norm(200, 1000)
      [] OTHER -> Norm(95, 1000)

C23_CourseNumbersIncreasing ==
    LET courses == shellForm.courses
    IN  /\ \A i \in DOMAIN courses : courses[i].courseNumber >= 1
        /\ \A i, j \in DOMAIN courses :
               i < j => courses[i].courseNumber < courses[j].courseNumber

\* C29: the shell form's course list is never empty: after any sequence of
\* addCourse and removeCourse the list has at least one course, and
\* removeCourse on a one-course list leaves the list unchanged.
C29_CoursesNeverEmpty ==
    [][/\ Len(shellForm.courses) >= 1
       /\ Len(shellForm'.courses) >= 1
       /\ \A index \in DOMAIN shellForm.courses :
              (removeCourse(index) /\ Len(shellForm.courses) = 1)
                  => shellForm'.courses = shellForm.courses]_vars

\* the state a click of removeCourse on the only course left of a saved form
\* ends in: the last input allowed has been spent and the course is still there
C29_Witness ==
    /\ activeTab = "shell-calculations"
    /\ edits = MaxEdits
    /\ Len(shellForm.courses) = 1
    /\ \E savedData \in SavedShellData :
           shellForm = [savedData EXCEPT !.courses = shellForm.courses]

\* C24: saving one section of a report never loses another section's saved
\* data: for any interleaving of the save handlers on the same report, once
\* all have completed, customFields contains the data written by each of
\* them, and each handler leaves every customFields key other than its own
\* unchanged.
C24_NoSectionLost ==
    [][/\ (\A field \in DOMAIN SaveRoutes : saves'[field].pc # "read")
           => \A field \in DOMAIN SaveRoutes :
                  saves'[field].pc = "done"
                      => reports'[saves'[field].body.reportId].customFields[field]
                            = saves'[field].body
       /\ \A field \in DOMAIN SaveRoutes :
              CompleteSave(field)
                  => \A other \in DOMAIN SaveRoutes \ {field} :
                         \A id \in ReportIds :
                             reports'[id].customFields[other]
                                = reports[id].customFields[other]]_vars

\* C25: after any sequence of successful handleCreateCml and delete
\* operations on one report's CML records, the auto-generated CML IDs
\* (numbered from the current record count plus one) of the records that
\* exist are pairwise distinct.
C25_CmlIdsDistinct ==
    \A i, j \in DOMAIN cmlRecords :
        i # j => cmlRecords[i].cmlId # cmlRecords[j].cmlId

\* C26: for every nozzle record and every pair of inspection dates, the
\* nextInspectionDate written by calculateNozzleMetrics is never earlier than
\* the current inspection date and never more than 10 years after it,
\* including when the current thickness is below the computed tMin.
C26_NextInspectionWithinTenYears ==
    [][(calculateNozzleMetrics /\ toast' = "Calculations Complete") =>
          \A i \in DOMAIN nozzleForm'.records :
              LET next == DaysFromCivil(nozzleForm'.records[i].nextInspectionDate)
              IN  /\ next >= DaysFromCivil(nozzleForm.inspectionDate)
                  /\ next <= DaysFromCivil(AddYears(nozzleForm.inspectionDate, 10))]_vars

\* every point of a list has the settlement of the first
UniformlySettled(points) ==
    \A i \in DOMAIN points : points[i].settlement = points[1].settlement

\* C27: if every elevation point has the same settlement value s (pure
\* uniform subsidence, any s), calculatePlanarTilt returns 0 for every choice
\* of 3 or more point positions, evenly spaced or not.
C27_UniformSettlementNoTilt ==
    (MetricsCurrent /\ Len(settlement.elevationPoints) >= 3
        /\ UniformlySettled(settlement.elevationPoints))
        => settlement.planarTilt = Num(0)

\* the seven stored metrics of a survey
StoredMetrics(data) ==
    <<data.maxSettlement, data.minSettlement, data.differentialSettlement,
      data.tiltPercentage, data.planarTilt, data.uniformSettlement,
      data.outOfPlaneSettlement>>

\* a step of updateElevationPoint, addCustomPoint or removePoint
PointListStep ==
    \/ addCustomPoint
    \/ \E index \in DOMAIN settlement.elevationPoints :
          \/ removePoint(index)
          \/ \E text \in PositionInputs :
                 updateElevationPoint(index, "position", OrZero(parseFloat(text)))
          \/ \E field \in {"previousElevation", "currentElevation"}, text \in ElevationInputs :
                 updateElevationPoint(index, field, OrZero(parseFloat(text)))

C30_NozzleDates ==
    [][calculateNozzleMetrics =>
          IF nozzleForm.previousInspectionDate = Empty \/ nozzleForm.inspectionDate = Empty
          THEN toast' = "Missing Dates" /\ nozzleForm'.records = nozzleForm.records
          ELSE DaysFromCivil(nozzleForm.previousInspectionDate)
                  >= DaysFromCivil(nozzleForm.inspectionDate)
               => \A i \in DOMAIN nozzleForm'.records :
                      /\ nozzleForm'.records[i].corrosionRate = Num(0)
                      /\ nozzleForm'.records[i].remainingLife = Num(999)]_vars

\* the error shown for a saved form whose current inspection date was
\* cleared: its two records still hold the tMin they were saved with
C30_Witness ==
    /\ toast = "Missing Dates"
    /\ nozzleForm.inspectionDate = Empty
    /\ nozzleForm.previousInspectionDate # Empty
    /\ Len(nozzleForm.records) = 2
    /\ nozzleForm.records[1].tMin = Norm(500, 1000)

====
